---- MODULE Spec2Model ----
(***************************************************************************)
(* Model of the GoodSDKs bridging SDK (packages/bridging-sdk):             *)
(*   - BridgingSDK (viem-sdk.ts): construction, setWalletClient,           *)
(*     estimateFee, bridgeTo / bridgeToWithLz / bridgeToWithAxelar,        *)
(*     canBridge, getTransactionStatus;                                    *)
(*   - utils/fees.ts, utils/decimals.ts, utils/tracking.ts;                *)
(*   - useBridgingSDK of packages/react-hooks (hooks/useBridging.ts).      *)
(*                                                                         *)
(* Conventions                                                             *)
(*   - A JS bigint is a sequence of decimal digits, most significant       *)
(*     first, without leading zeros; 0n is <<0>>.  (TLC integers are 32    *)
(*     bits wide, the SDK's amounts are 10^18-scaled.)                     *)
(*   - An optional value (T | null | undefined) is a sequence of length    *)
(*     at most one: <<>> is null/undefined, <<v>> is the value v.  An      *)
(*     undefined bigint is <<>> (no bigint has no digits).                 *)
(*   - A string that the code parses is a sequence of one-character        *)
(*     strings; other strings are TLA+ strings.                            *)
(*   - An error message is a sequence of parts (template literal pieces).  *)
(*   - A function that can throw yields [threw, error, value].             *)
(***************************************************************************)
EXTENDS Integers, Sequences, FiniteSets, TLC

VARIABLES
  walletClient,    \* BridgingSDK.walletClient: <<>> or <<wallet>>
  currentChainId,  \* BridgingSDK.currentChainId
  fees,            \* BridgingSDK.fees: <<>> or <<fee table>>
  pc,              \* position of the one SDK call in flight (its pending await)
  call,            \* arguments of the call in flight
  feeFrom,         \* fromChainId argument handed to getFeeEstimate
  feeResponse,     \* <<>> or <<what getFeeEstimate's request for the table got>>
  feeEstimate,     \* <<>> or <<FeeEstimate>> obtained in this call
  params,          \* <<>> or <<SimulateContractParameters>> built by bridgeInternal
  simulated,       \* <<>> or <<arguments of publicClient.simulateContract>>
  written,         \* <<>> or <<request handed to walletClient.writeContract>>
  steps,           \* steps of the call performed so far, in order
  fetches,         \* requests issued to the fee endpoint by this call
  error,           \* message of the error the call rejected with (<<>> if none)
  cbPc, cbCall, cbReadArgs, cbOutcome, cbResult,   \* canBridge call
  stPc, stCall, stResult,                    \* getTransactionStatus call
  pollPc, pollCall, now, startTime, polls, updates, pollResult, \* pollTransactionStatus
  utilPc, utilCall, utilResult,        \* a call of a utils/ function
  histPc, histCall, histRequests, histExecuted, histResult,  \* getHistory call
  sdkLive,         \* whether `new BridgingSDK(...)` has returned an instance
  lifeCall,        \* the last constructor or setWalletClient call and its outcome
  hookDeps,        \* useBridgingSDK: <<>> or <<[publicClient, walletClient, chainId]>>
  hookRuns,        \* useBridgingSDK: the initSDK runs started, in order
  hookSdk, hookLoading, hookError      \* useBridgingSDK: the hook's state

sdkVars    == <<walletClient, currentChainId, fees>>
bridgeVars == <<pc, call, feeFrom, feeResponse, feeEstimate, params, simulated,
                written, steps, fetches, error>>
cbVars     == <<cbPc, cbCall, cbReadArgs, cbOutcome, cbResult>>
stVars     == <<stPc, stCall, stResult>>
pollVars   == <<pollPc, pollCall, now, startTime, polls, updates, pollResult>>
utilVars   == <<utilPc, utilCall, utilResult>>
histVars   == <<histPc, histCall, histRequests, histExecuted, histResult>>
lifeVars   == <<sdkLive, lifeCall>>
hookVars   == <<hookDeps, hookRuns, hookSdk, hookLoading, hookError>>
vars       == <<sdkVars, bridgeVars, cbVars, stVars, pollVars, utilVars,
                histVars, lifeVars, hookVars>>

-----------------------------------------------------------------------------
(* JS bigint arithmetic on digit sequences *)

BigZero == <<0>>

Zeros(k) == [i \in 1..k |-> 0]

RECURSIVE Strip(_)
Strip(s) ==
  IF Len(s) <= 1 THEN (IF s = <<>> THEN BigZero ELSE s)
  ELSE IF s[1] = 0 THEN Strip(Tail(s)) ELSE s

RECURSIVE DigitsOf(_)
DigitsOf(n) == IF n < 10 THEN <<n>> ELSE DigitsOf(n \div 10) \o <<n % 10>>

\* a < b
BigLess(a, b) ==
  \/ Len(a) < Len(b)
  \/ /\ Len(a) = Len(b)
     /\ \E i \in 1..Len(a) :
          /\ a[i] < b[i]
          /\ \A j \in 1..(i - 1) : a[j] = b[j]

\* a * 10n ** BigInt(k)
BigMulPow10(a, k) == IF a = BigZero THEN BigZero ELSE a \o Zeros(k)

\* a / 10n ** BigInt(k)   (bigint division truncates)
BigDivPow10(a, k) ==
  IF Len(a) <= k THEN BigZero ELSE SubSeq(a, 1, Len(a) - k)

RECURSIVE MulAcc(_, _, _, _)
MulAcc(a, i, m, carry) ==
  IF i = 0 THEN (IF carry = 0 THEN <<>> ELSE DigitsOf(carry))
  ELSE LET p == a[i] * m + carry
       IN  MulAcc(a, i - 1, m, p \div 10) \o <<p % 10>>

\* a * BigInt(m), m a small non-negative integer
BigMulSmall(a, m) == Strip(MulAcc(a, Len(a), m, 0))

RECURSIVE DivAcc(_, _, _, _)
DivAcc(a, i, d, rem) ==
  IF i > Len(a) THEN <<>>
  ELSE LET cur == rem * 10 + a[i]
       IN  <<cur \div d>> \o DivAcc(a, i + 1, d, cur % d)

\* a / BigInt(d), d a small positive integer (truncating)
BigDivSmall(a, d) == Strip(DivAcc(a, 1, d, 0))

\* a % 10n ** BigInt(k)
BigModPow10(a, k) ==
  IF Len(a) <= k THEN a ELSE Strip(SubSeq(a, Len(a) - k + 1, Len(a)))

\* digit i of a counted from the least significant one (0 beyond its length)
DigitFromRight(a, i) == IF i <= Len(a) THEN a[Len(a) - i + 1] ELSE 0

RECURSIVE AddAcc(_, _, _, _)
AddAcc(a, b, i, carry) ==
  IF i > Len(a) /\ i > Len(b)
  THEN (IF carry = 0 THEN <<>> ELSE <<carry>>)
  ELSE LET t == DigitFromRight(a, i) + DigitFromRight(b, i) + carry
       IN  AddAcc(a, b, i + 1, t \div 10) \o <<t % 10>>

\* a + b
BigAdd(a, b) == Strip(AddAcc(a, b, 1, 0))

-----------------------------------------------------------------------------
(* constants.ts *)

SupportedChainIds == {42220, 122, 1, 50}

SUPPORTED_CHAINS ==
  [c \in SupportedChainIds |->
     CASE c = 42220 -> [id |-> 42220, name |-> "Celo",     decimals |-> 18]
       [] c = 122   -> [id |-> 122,   name |-> "Fuse",     decimals |-> 2]
       [] c = 1     -> [id |-> 1,     name |-> "Ethereum", decimals |-> 2]
       [] c = 50    -> [id |-> 50,    name |-> "XDC",      decimals |-> 18]]

BRIDGE_CONTRACT_ADDRESSES ==
  [c \in SupportedChainIds |-> "0xa3247276dbcc76dd7705273f766eb3e8a5ecf4a5"]

NORMALIZED_DECIMALS == 18

\* FEE_MULTIPLIER = 1.1; the code uses Math.floor(FEE_MULTIPLIER * 100),
\* and 1.1 * 100 is 110.00000000000001 in IEEE double arithmetic
FEE_MULTIPLIER_TIMES_100 == 110

BRIDGE_STATUS_POLL_INTERVAL == 30000

BRIDGE_STATUS_TIMEOUT == 300000

Protocols == {"AXELAR", "LAYERZERO"}

-----------------------------------------------------------------------------
(* utils/decimals.ts *)

\* SUPPORTED_CHAINS[chainId]?.decimals || NORMALIZED_DECIMALS
getChainDecimals(chainId) ==
  IF chainId \in SupportedChainIds /\ SUPPORTED_CHAINS[chainId].decimals # 0
  THEN SUPPORTED_CHAINS[chainId].decimals
  ELSE NORMALIZED_DECIMALS

\* (mutant) the shift is applied downwards, as in denormalizeAmount
normalizeAmount_ShiftDown(amount, fromChainId) ==
  BigDivPow10(amount, NORMALIZED_DECIMALS - getChainDecimals(fromChainId))

normalizeAmount(amount, fromChainId) ==
  LET fromDecimals == getChainDecimals(fromChainId)
  IN  IF fromDecimals = NORMALIZED_DECIMALS THEN amount
      ELSE IF fromDecimals > NORMALIZED_DECIMALS
           THEN BigDivPow10(amount, fromDecimals - NORMALIZED_DECIMALS)
           ELSE BigMulPow10(amount, NORMALIZED_DECIMALS - fromDecimals)

\* (mutant) the shift is applied upwards, as in normalizeAmount
denormalizeAmount_ShiftUp(amount, toChainId) ==
  BigMulPow10(amount, NORMALIZED_DECIMALS - getChainDecimals(toChainId))

\* (mutant) the discarded remainder rounds the result up
denormalizeAmount_RoundUp(amount, toChainId) ==
  LET toDecimals == getChainDecimals(toChainId)
      shift      == NORMALIZED_DECIMALS - toDecimals
  IN  IF toDecimals >= NORMALIZED_DECIMALS THEN amount
      ELSE IF BigModPow10(amount, shift) = BigZero
           THEN BigDivPow10(amount, shift)
           ELSE BigAdd(BigDivPow10(amount, shift), <<1>>)

denormalizeAmount(amount, toChainId) ==
  LET toDecimals == getChainDecimals(toChainId)
  IN  IF toDecimals = NORMALIZED_DECIMALS THEN amount
      ELSE IF toDecimals > NORMALIZED_DECIMALS
           THEN BigMulPow10(amount, toDecimals - NORMALIZED_DECIMALS)
           ELSE BigDivPow10(amount, NORMALIZED_DECIMALS - toDecimals)

Threw(msg)  == [threw |-> TRUE,  error |-> msg,  value |-> <<>>]
Return(v)   == [threw |-> FALSE, error |-> <<>>, value |-> <<v>>]

IsDigit(ch) == ch \in {"0", "1", "2", "3", "4", "5", "6", "7", "8", "9"}

DigitVal(ch) ==
  CASE ch = "0" -> 0 [] ch = "1" -> 1 [] ch = "2" -> 2 [] ch = "3" -> 3
    [] ch = "4" -> 4 [] ch = "5" -> 5 [] ch = "6" -> 6 [] ch = "7" -> 7
    [] ch = "8" -> 8 [] ch = "9" -> 9

DigitChar(d) ==
  CASE d = 0 -> "0" [] d = 1 -> "1" [] d = 2 -> "2" [] d = 3 -> "3"
    [] d = 4 -> "4" [] d = 5 -> "5" [] d = 6 -> "6" [] d = 7 -> "7"
    [] d = 8 -> "8" [] d = 9 -> "9"

\* bigint.toString()
BigToString(a) == [i \in 1..Len(a) |-> DigitChar(a[i])]

\* str.padStart(n, "0")
PadStart(str, n) == [i \in 1..(n - Len(str)) |-> "0"] \o str

\* str.replace(/0+$/, "")
RECURSIVE TrimTrailingZeros(_)
TrimTrailingZeros(str) ==
  IF str # <<>> /\ str[Len(str)] = "0"
  THEN TrimTrailingZeros(SubSeq(str, 1, Len(str) - 1))
  ELSE str

\* (mutant) a zero fraction is printed as ".0"
formatAmount_KeepOneDecimal(amount, decimals) ==
  LET whole      == BigDivPow10(amount, decimals)
      fractional == BigModPow10(amount, decimals)
  IN  IF fractional = BigZero THEN BigToString(whole) \o <<".", "0">>
      ELSE BigToString(whole) \o <<".">> \o
           TrimTrailingZeros(PadStart(BigToString(fractional), decimals))

formatAmount(amount, decimals) ==
  LET whole      == BigDivPow10(amount, decimals)
      fractional == BigModPow10(amount, decimals)
  IN  IF fractional = BigZero THEN BigToString(whole)
      ELSE BigToString(whole) \o <<".">> \o
           TrimTrailingZeros(PadStart(BigToString(fractional), decimals))

\* the first index >= from of a "." in s, Len(s) + 1 when there is none
IndexOfDot(s, from) ==
  IF \E i \in from..Len(s) : s[i] = "."
  THEN CHOOSE i \in from..Len(s) :
         /\ s[i] = "."
         /\ \A j \in from..(i - 1) : s[j] # "."
  ELSE Len(s) + 1

\* str.split("."): parts[0], parts[1] and, as one element, what follows a
\* second "." (parseAmount reads parts[0] and parts[1] only)
SplitDot(str) ==
  LET d1 == IndexOfDot(str, 1)
      d2 == IndexOfDot(str, d1 + 1)
  IN  IF d1 > Len(str) THEN <<str>>
      ELSE <<SubSeq(str, 1, d1 - 1), SubSeq(str, d1 + 1, d2 - 1)>> \o
           (IF d2 > Len(str) THEN <<>>
            ELSE <<SubSeq(str, d2 + 1, Len(str))>>)

\* str.padEnd(n, "0")
PadEnd(str, n) == str \o [i \in 1..(n - Len(str)) |-> "0"]

\* BigInt(str) of an unsigned decimal literal; any other non-empty text
\* without blanks, sign or radix prefix is a SyntaxError
BigIntOf(str) ==
  IF \A i \in 1..Len(str) : IsDigit(str[i])
  THEN Return(Strip([i \in 1..Len(str) |-> DigitVal(str[i])]))
  ELSE Threw(<<"SyntaxError: Cannot convert to a BigInt">>)

\* (mutant) the fraction is padded on the left
parseAmount_PadStart(amount, decimals) ==
  IF amount = <<>> \/ amount = <<"0">> THEN Return(BigZero)
  ELSE
  LET parts    == SplitDot(amount)
      wholeStr == IF parts[1] = <<>> THEN <<"0">> ELSE parts[1]
      given    == IF Len(parts) >= 2 THEN parts[2] ELSE <<>>
      fractionalStr == IF Len(given) > decimals THEN SubSeq(given, 1, decimals)
                       ELSE PadStart(given, decimals)
      whole      == BigIntOf(wholeStr)
      fractional == BigIntOf(IF fractionalStr = <<>> THEN <<"0">>
                             ELSE fractionalStr)
  IN  IF whole.threw THEN whole
      ELSE IF fractional.threw THEN fractional
      ELSE Return(BigAdd(BigMulPow10(whole.value[1], decimals),
                         fractional.value[1]))

\* (mutant) a fraction longer than decimals is not cut
parseAmount_NoTruncate(amount, decimals) ==
  IF amount = <<>> \/ amount = <<"0">> THEN Return(BigZero)
  ELSE
  LET parts    == SplitDot(amount)
      wholeStr == IF parts[1] = <<>> THEN <<"0">> ELSE parts[1]
      given    == IF Len(parts) >= 2 THEN parts[2] ELSE <<>>
      fractionalStr == PadEnd(given, decimals)
      whole      == BigIntOf(wholeStr)
      fractional == BigIntOf(IF fractionalStr = <<>> THEN <<"0">>
                             ELSE fractionalStr)
  IN  IF whole.threw THEN whole
      ELSE IF fractional.threw THEN fractional
      ELSE Return(BigAdd(BigMulPow10(whole.value[1], decimals),
                         fractional.value[1]))

parseAmount(amount, decimals) ==
  IF amount = <<>> \/ amount = <<"0">> THEN Return(BigZero)
  ELSE
  LET parts    == SplitDot(amount)
      wholeStr == IF parts[1] = <<>> THEN <<"0">> ELSE parts[1]
      given    == IF Len(parts) >= 2 THEN parts[2] ELSE <<>>
      fractionalStr == IF Len(given) > decimals THEN SubSeq(given, 1, decimals)
                       ELSE PadEnd(given, decimals)
      whole      == BigIntOf(wholeStr)
      fractional == BigIntOf(IF fractionalStr = <<>> THEN <<"0">>
                             ELSE fractionalStr)
  IN  IF whole.threw THEN whole
      ELSE IF fractional.threw THEN fractional
      ELSE Return(BigAdd(BigMulPow10(whole.value[1], decimals),
                         fractional.value[1]))

\* a bigint that may be negative: a sign and a magnitude
Signed(neg, mag) == [neg |-> neg /\ mag # BigZero, mag |-> mag]

\* a - 1n for a > 0n
RECURSIVE BigDec(_)
BigDec(a) ==
  IF a[Len(a)] > 0
  THEN Strip(SubSeq(a, 1, Len(a) - 1) \o <<a[Len(a)] - 1>>)
  ELSE Strip(BigDec(SubSeq(a, 1, Len(a) - 1)) \o <<9>>)

\* 10n ** BigInt(k)
BigPow10(k) == <<1>> \o Zeros(k)

\* (amount + divisor / 2n - 1n) / divisor * divisor; the numerator is -1n
\* when amount + divisor / 2n is 0n, and bigint division truncates toward 0
roundAmount(amount, decimals) ==
  LET divisor == BigPow10(decimals)
      sum     == BigAdd(amount, BigDivSmall(divisor, 2))
      numer   == IF sum = BigZero THEN Signed(TRUE, <<1>>)
                 ELSE Signed(FALSE, BigDec(sum))
  IN  Signed(numer.neg,
             BigMulPow10(BigDivPow10(numer.mag, decimals), decimals))

\* (mutant) the fee is left out of the total
decimals_validateSufficientBalance_NoFee(balance, amount, fee) ==
  IF BigLess(balance, amount)
  THEN [isValid |-> FALSE, error |-> <<"Insufficient balance.">>]
  ELSE [isValid |-> TRUE, error |-> <<>>]

\* validateSufficientBalance of utils/decimals.ts (fee defaults to 0n; the
\* message is its `reason` field)
decimals_validateSufficientBalance(balance, amount, fee) ==
  LET totalRequired == BigAdd(amount, IF fee = <<>> THEN BigZero ELSE fee)
  IN  IF BigLess(balance, totalRequired)
      THEN [isValid |-> FALSE,
            error   |-> <<"Insufficient balance. Required: ",
                          formatAmount(totalRequired, 18),
                          ", Available: ", formatAmount(balance, 18)>>]
      ELSE [isValid |-> TRUE, error |-> <<>>]

-----------------------------------------------------------------------------
(* The fee endpoint and the table it serves *)

\* an HTTP exchange: net = FALSE when fetch itself rejects, ok = response.ok,
\* json = <<>> when response.json() rejects, else <<the decoded body>>
NetworkError   == [net |-> FALSE, ok |-> FALSE, json |-> <<>>]
HttpError      == [net |-> TRUE,  ok |-> FALSE, json |-> <<>>]
BadBody        == [net |-> TRUE,  ok |-> TRUE,  json |-> <<>>]
OkBody(body)   == [net |-> TRUE,  ok |-> TRUE,  json |-> <<body>>]

ChainNames == {"CELO", "FUSE", "ETH", "XDC"}

RouteKey(protocolPrefix, fromChainName, toChainName) ==
  protocolPrefix \o "_" \o fromChainName \o "_TO_" \o toChainName

ProtocolPrefix(protocol) == IF protocol = "AXELAR" THEN "AXL" ELSE "LZ"

\* quotes "<decimal amount> <currency name>"
Quote2    == <<"2", ".", "0", " ", "C", "e", "l", "o">>
QuoteHalf == <<"0", ".", "5", " ", "C", "e", "l", "o">>
Quote0    == <<"0", " ", "C", "e", "l", "o">>

\* a table quoting q for every route of the protocols ps, except the routes
\* into the chains named in dropped
Table(ps, q, dropped) ==
  [p \in ps |->
     [k \in {RouteKey(ProtocolPrefix(p), a, b) :
               a \in ChainNames, b \in ChainNames \ dropped} |-> q]]

\* a quote of its own for every route: "<s>.<e> Celo", s in 3..6 naming the
\* source chain and e, a number of eighths, the destination and the protocol
\* (double arithmetic is exact on eighths); AXL_CELO_TO_ETH has "2.0 Celo"
ChainDigit(chainName) ==
  CASE chainName = "CELO" -> 3 [] chainName = "FUSE" -> 4
    [] chainName = "ETH"  -> 5 [] chainName = "XDC"  -> 6

Eighths ==
  << <<"0", "0", "0">>, <<"1", "2", "5">>, <<"2", "5", "0">>,
     <<"3", "7", "5">>, <<"5", "0", "0">>, <<"6", "2", "5">>,
     <<"7", "5", "0">>, <<"8", "7", "5">> >>

RouteQuote(protocol, fromChainName, toChainName) ==
  IF protocol = "AXELAR" /\ fromChainName = "CELO" /\ toChainName = "ETH"
  THEN Quote2
  ELSE <<DigitChar(ChainDigit(fromChainName)), ".">> \o
       Eighths[2 * (ChainDigit(toChainName) - 3) +
               (IF protocol = "AXELAR" THEN 1 ELSE 2)] \o
       <<" ", "C", "e", "l", "o">>

RouteTable ==
  [p \in Protocols |->
     [k \in {RouteKey(ProtocolPrefix(p), a, b) :
               a \in ChainNames, b \in ChainNames} |->
        LET ab == CHOOSE ab \in ChainNames \X ChainNames :
                    RouteKey(ProtocolPrefix(p), ab[1], ab[2]) = k
        IN  RouteQuote(p, ab[1], ab[2])]]

\* every protocol and route; a free quote; LayerZero only, no route into
\* Ethereum; a quote per route
FeeTables ==
  { Table(Protocols, Quote2, {}),
    Table(Protocols, Quote0, {}),
    Table({"LAYERZERO"}, QuoteHalf, {"ETH"}),
    RouteTable }

FeeResponses ==
  {NetworkError, HttpError, BadBody} \cup {OkBody(t) : t \in FeeTables}

-----------------------------------------------------------------------------
(* utils/fees.ts *)

\* fetchFeeEstimates: every failure is rethrown as "Fee estimation failed: ..."
fetchFeeEstimates(resp) ==
  IF ~resp.net
  THEN Threw(<<"Fee estimation failed: ", "network error">>)
  ELSE IF ~resp.ok
  THEN Threw(<<"Fee estimation failed: ", "Failed to fetch fee estimates: ",
               "statusText">>)
  ELSE IF resp.json = <<>>
  THEN Threw(<<"Fee estimation failed: ", "invalid json">>)
  ELSE Return(resp.json[1])

\* feeString.split(" ")[0]
RECURSIVE BeforeSpace(_)
BeforeSpace(s) ==
  IF s = <<>> \/ s[1] = " " THEN <<>> ELSE <<s[1]>> \o BeforeSpace(Tail(s))

\* the longest prefix of s made of digits
RECURSIVE DigitPrefix(_)
DigitPrefix(s) ==
  IF s = <<>> \/ ~IsDigit(s[1]) THEN <<>> ELSE <<s[1]>> \o DigitPrefix(Tail(s))

\* parseFloat(amountStr) reads an unsigned decimal literal "w", "w.f" or ".f"
\* (sign, exponent and leading blanks are outside the quotes modelled);
\* the result is the pair of digit strings, <<>> for NaN
parseFloat(amountStr) ==
  LET w    == DigitPrefix(amountStr)
      rest == SubSeq(amountStr, Len(w) + 1, Len(amountStr))
      f    == IF rest # <<>> /\ rest[1] = "." THEN DigitPrefix(Tail(rest))
              ELSE <<>>
  IN  IF w = <<>> /\ f = <<>> THEN <<>> ELSE <<[whole |-> w, frac |-> f]>>

\* BigInt(Math.floor(amount * 10 ** decimals)), for the quotes on which the
\* double multiplication is exact (Quote2, QuoteHalf, Quote0, RouteQuote)
FloorScaled(amount, decimals) ==
  LET f      == amount.frac
      padded == IF Len(f) > decimals THEN SubSeq(f, 1, decimals)
                ELSE f \o [i \in 1..(decimals - Len(f)) |-> "0"]
      digits == amount.whole \o padded
  IN  Strip([i \in 1..Len(digits) |-> DigitVal(digits[i])])

parseNativeFee(feeString, chainId) ==
  LET amountStr == BeforeSpace(feeString)
      decimals  == IF chainId \in SupportedChainIds
                      /\ SUPPORTED_CHAINS[chainId].decimals # 0
                   THEN SUPPORTED_CHAINS[chainId].decimals ELSE 18
      amount    == parseFloat(amountStr)
  IN  IF amountStr = <<>> THEN Threw(<<"Invalid fee format">>)
      ELSE IF amount = <<>> THEN Threw(<<"Invalid fee amount">>)
      ELSE Return(FloorScaled(amount[1], decimals))

\* <<>> stands for the thrown "Unsupported chain ID"
getChainName(chainId) ==
  CASE chainId = 42220 -> <<"CELO">>
    [] chainId = 122   -> <<"FUSE">>
    [] chainId = 1     -> <<"ETH">>
    [] chainId = 50    -> <<"XDC">>
    [] OTHER           -> <<>>

\* (mutant) the buffered fee is rounded up
feeWithBuffer_RoundUp(fee) ==
  BigDivSmall(BigAdd(BigMulSmall(fee, FEE_MULTIPLIER_TIMES_100), <<9, 9>>), 100)

\* (fee * BigInt(Math.floor(FEE_MULTIPLIER * 100))) / 100n
feeWithBuffer(fee) ==
  BigDivSmall(BigMulSmall(fee, FEE_MULTIPLIER_TIMES_100), 100)

\* protocol === "AXELAR" ? "AXL" : "LZ"
protocolPrefix(protocol) == IF protocol = "AXELAR" THEN "AXL" ELSE "LZ"

\* (mutant) the chain codes are swapped
routeKey_Swapped(prefix, fromChainName, toChainName) ==
  prefix \o "_" \o toChainName \o "_TO_" \o fromChainName

\* `${protocolPrefix}_${fromChainName}_TO_${toChainName}`
routeKey(prefix, fromChainName, toChainName) ==
  prefix \o "_" \o fromChainName \o "_TO_" \o toChainName

\* getFeeEstimate once fetchFeeEstimates() has returned the table feeData
getFeeEstimateSettle(feeData, fromChainId, toChainId, protocol) ==
  IF protocol \notin DOMAIN feeData
  THEN Threw(<<"No fee data available for protocol: ", protocol>>)
  ELSE
  LET protocolData  == feeData[protocol]
      fromChainName == getChainName(fromChainId)
      toChainName   == getChainName(toChainId)
  IN
  IF fromChainName = <<>> THEN Threw(<<"Unsupported chain ID: ", fromChainId>>)
  ELSE IF toChainName = <<>> THEN Threw(<<"Unsupported chain ID: ", toChainId>>)
  ELSE
  LET key == routeKey(protocolPrefix(protocol), fromChainName[1],
                      toChainName[1])
  IN
  IF key \notin DOMAIN protocolData \/ protocolData[key] = <<>>
  THEN Threw(<<"No fee data available for route: ", fromChainName[1], " to ",
               toChainName[1]>>)
  ELSE
  LET feeString == protocolData[key]
      fee       == parseNativeFee(feeString, fromChainId)
  IN
  IF fee.threw THEN fee
  ELSE Return([fee         |-> feeWithBuffer(fee.value[1]),
               feeInNative |-> feeString,
               protocol    |-> protocol])

\* (mutant) a route without a quote costs nothing
getFeeEstimate_MissingRouteIsFree(resp, fromChainId, toChainId, protocol) ==
  LET feeData == fetchFeeEstimates(resp)
      r       == getFeeEstimateSettle(feeData.value[1], fromChainId, toChainId,
                                      protocol)
  IN  IF feeData.threw THEN feeData
      ELSE IF r.threw /\ r.error[1] = "No fee data available for route: "
      THEN Return([fee |-> BigZero, feeInNative |-> Quote0,
                   protocol |-> protocol])
      ELSE r

\* getFeeEstimate, given the response its fetchFeeEstimates() call receives
getFeeEstimate(resp, fromChainId, toChainId, protocol) ==
  LET feeData == fetchFeeEstimates(resp)
  IN  IF feeData.threw THEN feeData
      ELSE getFeeEstimateSettle(feeData.value[1], fromChainId, toChainId,
                                protocol)

\* (mutant) the coverage test is skipped
validateFeeCoverage_AlwaysValid(msgValue, requiredFee) ==
  [isValid |-> TRUE, error |-> <<>>]

\* (mutant) a value equal to the fee is refused
validateFeeCoverage_LessOrEqual(msgValue, requiredFee) ==
  IF BigLess(msgValue, requiredFee) \/ msgValue = requiredFee
  THEN [isValid |-> FALSE,
        error   |-> <<"Insufficient fee. Required: ", requiredFee,
                      ", Provided: ", msgValue>>]
  ELSE [isValid |-> TRUE, error |-> <<>>]

validateFeeCoverage(msgValue, requiredFee) ==
  IF BigLess(msgValue, requiredFee)
  THEN [isValid |-> FALSE,
        error   |-> <<"Insufficient fee. Required: ", requiredFee,
                      ", Provided: ", msgValue>>]
  ELSE [isValid |-> TRUE, error |-> <<>>]

calculateTotalCost(bridgeAmount, fee) == BigAdd(bridgeAmount, fee)

\* validateSufficientBalance of utils/fees.ts
fees_validateSufficientBalance(userBalance, bridgeAmount, fee) ==
  LET totalCost == calculateTotalCost(bridgeAmount, fee)
  IN  IF BigLess(userBalance, totalCost)
      THEN [isValid |-> FALSE,
            error   |-> <<"Insufficient balance. Required: ", totalCost,
                          ", Available: ", userBalance>>]
      ELSE [isValid |-> TRUE, error |-> <<>>]

-----------------------------------------------------------------------------
(* BridgingSDK (viem-sdk.ts): construction and wallet *)

\* a wallet client is known by its chain id; 0 stands for a client whose
\* chain (or chain id) is undefined: the code only tests `!chain?.id`
\* (wallet clients offered to setWalletClient: on Celo, on Fuse, chainless)
WalletChainIds == {42220, 122, 0}

Wallets == [chainId : WalletChainIds]

\* new BridgingSDK(publicClient, walletClient?, chainId?): the instance exists
\* only when the resolved chain id is a key of SUPPORTED_CHAINS; the wallet
\* client is stored unchecked (here: none, one on the instance's chain, or
\* one without a chain)
Constructed ==
  /\ currentChainId \in SupportedChainIds
  /\ walletClient \in {<<>>, <<[chainId |-> currentChainId]>>,
                      <<[chainId |-> 0]>>}
  /\ fees = <<>>

\* !walletClient.chain?.id || !SUPPORTED_CHAINS[walletClient.chain.id]
setWalletClientThrows(w) == w.chainId = 0 \/ w.chainId \notin SupportedChainIds

\* (mutant) the fields are assigned before the chain is validated
setWalletClient_AssignsFirst(w) ==
  /\ walletClient' = <<w>>
  /\ currentChainId' = w.chainId

setWalletClient(w) ==
  IF setWalletClientThrows(w)
  THEN UNCHANGED <<walletClient, currentChainId>>       \* throws
  ELSE /\ walletClient' = <<w>>
       /\ currentChainId' = w.chainId

SetWalletClient ==
  \E w \in Wallets :
    /\ setWalletClient(w)
    /\ UNCHANGED <<fees, bridgeVars, cbVars, stVars, pollVars,
                   utilVars, histVars, lifeVars, hookVars>>

-----------------------------------------------------------------------------
(* BridgingSDK: construction and setWalletClient, from no instance on *)

\* public clients handed to the constructor: none, one without a chain
\* (chainId 0), on Celo, on Ethereum, on an unsupported chain
PublicClients == {<<>>} \cup {<<[chainId |-> c]>> : c \in {0, 42220, 1, 137}}

\* the optional chainId argument
ChainIdArgs == {<<>>, <<42220>>, <<122>>, <<50>>, <<137>>}

\* wallet clients: those of Wallets and one on an unsupported chain
LifeWallets == Wallets \cup {[chainId |-> 137]}

\* chainId || publicClient.chain?.id || 0
constructorChainId(publicClient, chainId) ==
  IF chainId # <<>> /\ chainId[1] # 0 THEN chainId[1]
  ELSE publicClient[1].chainId

\* new BridgingSDK(publicClient, walletClient, chainId): the fields of the
\* instance, or the error thrown
BridgingSDK_new(publicClient, wallet, chainId) ==
  IF publicClient = <<>> THEN Threw(<<"Public client is required">>)
  ELSE LET id == constructorChainId(publicClient, chainId) IN
       IF id \notin SupportedChainIds
       THEN Threw(<<"Unsupported chain ID: ", ToString(id)>>)
       ELSE Return([walletClient |-> wallet, currentChainId |-> id,
                    fees |-> <<>>])

NoLifeCall == [op |-> "", threw |-> FALSE, args |-> <<>>, before |-> <<>>]

\* an instance made by the constructor, no call recorded
LifeIdle ==
  /\ sdkLive = TRUE
  /\ lifeCall = NoLifeCall

\* no instance yet (the fields hold placeholders until the constructor
\* returns one)
Unconstructed ==
  /\ sdkLive = FALSE
  /\ lifeCall = NoLifeCall
  /\ walletClient = <<>>
  /\ currentChainId = 0
  /\ fees = <<>>

NewBridgingSDK ==
  \E p \in PublicClients, w \in {<<>>} \cup {<<x>> : x \in LifeWallets},
     c \in ChainIdArgs :
    LET r == BridgingSDK_new(p, w, c) IN
    /\ ~sdkLive
    /\ lifeCall' = [op |-> "constructor", threw |-> r.threw,
                    args |-> <<p, w, c>>, before |-> <<>>]
    /\ IF r.threw
       THEN UNCHANGED <<sdkLive, sdkVars>>
       ELSE /\ sdkLive' = TRUE
            /\ walletClient' = r.value[1].walletClient
            /\ currentChainId' = r.value[1].currentChainId
            /\ fees' = r.value[1].fees
    /\ UNCHANGED <<bridgeVars, cbVars, stVars, pollVars, utilVars, histVars,
                   hookVars>>

\* sdk.setWalletClient(w) on the instance, the call and its outcome recorded
SetWalletClientCall ==
  \E w \in LifeWallets :
    /\ sdkLive
    /\ setWalletClient(w)
    /\ lifeCall' = [op |-> "setWalletClient",
                    threw |-> setWalletClientThrows(w), args |-> <<w>>,
                    before |-> <<walletClient, currentChainId>>]
    /\ UNCHANGED <<sdkLive, fees, bridgeVars, cbVars, stVars, pollVars,
                   utilVars, histVars, hookVars>>

-----------------------------------------------------------------------------
(* BridgingSDK: estimateFee and the bridge calls *)

Recipient == "0xRecipientAddress"

TargetChainIds == SupportedChainIds \cup {137}

Big115  == <<1, 1, 5>>
BigE18  == <<1>> \o Zeros(18)
Amounts == {Big115, BigE18}

\* msgValue arguments: undefined, 0, and values around the buffered fees of
\* the quotes (55 and 220 in 2 decimals, 2.2 * 10^18 in 18 decimals)
MsgValues == { <<>>, BigZero, <<2, 2, 0>>, <<2, 2>> \o Zeros(17) }

AdapterParams == { <<>>, <<"0x00010000">> }

\* (mutant) only the source chain is tested
AxelarUnsupported_SourceOnly(current, target) == current = 50 \/ current = 122

\* the protocol guard of estimateFee
AxelarUnsupported(current, target) ==
  current = 50 \/ current = 122 \/ target = 50 \/ target = 122

\* (mutant) the amount is normalized to 18 decimals
bridgeToArgs_Normalized(target, targetChainId, amount, protocol) ==
  [target |-> target, targetChainId |-> targetChainId,
   amount |-> normalizeAmount(amount, currentChainId),
   bridge |-> IF protocol = "AXELAR" THEN 0 ELSE 1]

\* args of bridgeTo
bridgeToArgs(target, targetChainId, amount, protocol) ==
  [target |-> target, targetChainId |-> targetChainId, amount |-> amount,
   bridge |-> IF protocol = "AXELAR" THEN 0 ELSE 1]

\* args of bridgeToWithLz
bridgeToWithLzArgs(target, targetChainId, amount, adapterParams) ==
  [target |-> target, targetChainId |-> targetChainId, amount |-> amount,
   adapterParams |-> IF adapterParams = <<>> THEN "0x" ELSE adapterParams[1]]

\* args of bridgeToWithAxelar (the refund address is not forwarded)
bridgeToWithAxelarArgs(target, targetChainId, amount) ==
  [target |-> target, targetChainId |-> targetChainId, amount |-> amount]

\* (mutant) the caller's msgValue is attached
bridgeInternalParams_MsgValue(contractAddress, fn, args, feeDue) ==
  [address |-> contractAddress, functionName |-> fn, args |-> args,
   value |-> IF call.msgValue = <<>> THEN BigZero ELSE call.msgValue]

\* the SimulateContractParameters bridgeInternal hands to submitAndWait
bridgeInternalParams(contractAddress, fn, args, feeDue) ==
  [address |-> contractAddress, functionName |-> fn, args |-> args,
   value |-> feeDue]

\* params.value || fee   (0n is falsy)
simulateValue(paramsValue, fee) ==
  IF paramsValue # <<>> /\ paramsValue # BigZero THEN paramsValue ELSE fee

BridgeOps == {"bridgeTo", "bridgeToWithLz", "bridgeToWithAxelar"}

Reject(msg) ==
  /\ pc' = "rejected"
  /\ error' = msg

\* estimateFee up to its first await: the protocol guard, then either
\* this.initialize() (no cached table) or getFeeEstimate(this.currentChainId,..)
EstimateFeeEntry(targetChainId, protocol, done) ==
  /\ steps' = done \o <<"estimateFee">>
  /\ UNCHANGED <<feeResponse, feeEstimate, params, simulated, written>>
  /\ IF protocol = "AXELAR" /\ AxelarUnsupported(currentChainId, targetChainId)
     THEN /\ Reject(IF targetChainId \in SupportedChainIds
                    THEN <<"Axelar bridging is not supported for ",
                           SUPPORTED_CHAINS[currentChainId].name, " or ",
                           SUPPORTED_CHAINS[targetChainId].name>>
                    ELSE <<"TypeError: cannot read 'name' of undefined">>)
          /\ fetches' = 0
          /\ feeFrom' = <<>>
     ELSE /\ error' = <<>>
          /\ fetches' = 1
          /\ IF fees = <<>>
             THEN pc' = "initialize" /\ feeFrom' = <<>>
             ELSE pc' = "getFeeEstimate" /\ feeFrom' = <<currentChainId>>

\* sdk.estimateFee(targetChainId, protocol)
EstimateFee ==
  \E t \in TargetChainIds, p \in Protocols :
    /\ pc = "idle"
    /\ call' = [op |-> "estimateFee", targetChainId |-> t, protocol |-> p,
                msgValue |-> <<>>, amount |-> BigZero, fn |-> "",
                args |-> [target |-> Recipient], chainAtCall |-> currentChainId]
    /\ EstimateFeeEntry(t, p, <<>>)
    /\ UNCHANGED <<sdkVars, cbVars, stVars, pollVars, utilVars, histVars,
                   lifeVars, hookVars>>

\* bridgeInternal up to its first await: the wallet check, then estimateFee
BridgeInternalEntry(op, t, p, m, amount, fn, args) ==
  /\ call' = [op |-> op, targetChainId |-> t, protocol |-> p, msgValue |-> m,
              amount |-> amount, fn |-> fn, args |-> args,
              chainAtCall |-> currentChainId]
  /\ IF walletClient = <<>>
     THEN /\ Reject(<<"Wallet client not initialized">>)
          /\ steps' = <<"walletCheck">>
          /\ fetches' = 0
          /\ UNCHANGED <<feeFrom, feeResponse, feeEstimate, params, simulated,
                         written>>
     ELSE EstimateFeeEntry(t, p, <<"walletCheck">>)
  /\ UNCHANGED <<sdkVars, cbVars, stVars, pollVars, utilVars, histVars,
                 lifeVars, hookVars>>

BridgeTo ==
  \E t \in TargetChainIds, a \in Amounts, p \in Protocols, m \in MsgValues :
    /\ pc = "idle"
    /\ BridgeInternalEntry("bridgeTo", t, p, m, a, "bridgeTo",
                           bridgeToArgs(Recipient, t, a, p))

BridgeToWithLz ==
  \E t \in TargetChainIds, a \in Amounts, ap \in AdapterParams,
     m \in MsgValues :
    /\ pc = "idle"
    /\ BridgeInternalEntry("bridgeToWithLz", t, "LAYERZERO", m, a,
                           "bridgeToWithLzAdapterParams",
                           bridgeToWithLzArgs(Recipient, t, a, ap))

BridgeToWithAxelar ==
  \E t \in TargetChainIds, a \in Amounts, m \in MsgValues :
    /\ pc = "idle"
    /\ BridgeInternalEntry("bridgeToWithAxelar", t, "AXELAR", m, a,
                           "bridgeToWithAxelar",
                           bridgeToWithAxelarArgs(Recipient, t, a))

\* `await this.initialize()` settles: the table is cached and getFeeEstimate
\* is called with the chain id current at that moment
InitializeSettles ==
  \E resp \in FeeResponses :
    LET r == fetchFeeEstimates(resp) IN
    /\ pc = "initialize"
    /\ IF r.threw
       THEN /\ Reject(r.error)
            /\ UNCHANGED <<fees, feeFrom, fetches>>
       ELSE /\ fees' = r.value
            /\ pc' = "getFeeEstimate"
            /\ feeFrom' = <<currentChainId>>
            /\ fetches' = fetches + 1
            /\ UNCHANGED error
    /\ UNCHANGED <<walletClient, currentChainId, call, feeResponse,
                   feeEstimate, params,
                   simulated, written, steps, cbVars, stVars, pollVars,
                   utilVars, histVars, lifeVars, hookVars>>

\* `await getFeeEstimate(...)` settles.  estimateFee returns the estimate;
\* bridgeInternal goes on to validateFeeCoverage, the contract address and
\* submitAndWait's wallet check, and awaits walletClient.getAddresses()
GetFeeEstimateSettles ==
  \E resp \in FeeResponses :
    LET r == getFeeEstimate(resp, feeFrom[1], call.targetChainId,
                            call.protocol)
    IN
    /\ pc = "getFeeEstimate"
    /\ feeResponse' = <<resp>>
    /\ UNCHANGED <<sdkVars, call, feeFrom, simulated, written, fetches,
                   cbVars, stVars, pollVars, utilVars, histVars,
                   lifeVars, hookVars>>
    /\ IF r.threw
       THEN /\ Reject(r.error)
            /\ UNCHANGED <<feeEstimate, params, steps>>
       ELSE
       /\ feeEstimate' = r.value
       /\ IF call.op = "estimateFee"
          THEN /\ pc' = "resolved"
               /\ UNCHANGED <<params, steps, error>>
          ELSE
          LET est           == r.value[1]
              providedValue == IF call.msgValue = <<>> THEN BigZero
                               ELSE call.msgValue
              feeValidation == validateFeeCoverage(providedValue, est.fee)
          IN
          IF ~feeValidation.isValid
          THEN /\ Reject(feeValidation.error)
               /\ steps' = steps \o <<"validateFeeCoverage">>
               /\ UNCHANGED params
          ELSE IF currentChainId \notin DOMAIN BRIDGE_CONTRACT_ADDRESSES
          THEN /\ Reject(<<"Bridge contract not deployed on chain ",
                           currentChainId>>)
               /\ steps' = steps \o <<"validateFeeCoverage", "resolveContract">>
               /\ UNCHANGED params
          ELSE
          /\ params' = <<bridgeInternalParams(
                           BRIDGE_CONTRACT_ADDRESSES[currentChainId],
                           call.fn, call.args, est.fee)>>
          /\ steps' = steps \o <<"validateFeeCoverage", "resolveContract",
                                 "getAddresses">>
          /\ IF walletClient = <<>>
             THEN Reject(<<"Wallet client not initialized">>)
             ELSE pc' = "getAddresses" /\ UNCHANGED error

Accounts == { <<>>, <<"0xAccount">> }

\* `await this.walletClient.getAddresses()` settles; simulateContract is called
GetAddressesSettles ==
  /\ pc = "getAddresses"
  /\ UNCHANGED <<sdkVars, call, feeFrom, feeResponse, feeEstimate, params,
                 written, fetches, cbVars, stVars, pollVars, utilVars, histVars,
                 lifeVars, hookVars>>
  /\ \/ /\ Reject(<<"getAddresses failed">>)
        /\ UNCHANGED <<simulated, steps>>
     \/ \E account \in Accounts :
          IF account = <<>>
          THEN /\ Reject(<<"No account found in wallet client">>)
               /\ UNCHANGED <<simulated, steps>>
          ELSE /\ simulated' =
                    <<[account      |-> account[1],
                       address      |-> params[1].address,
                       functionName |-> params[1].functionName,
                       args         |-> params[1].args,
                       value        |-> simulateValue(params[1].value,
                                                      feeEstimate[1].fee)]>>
               /\ steps' = steps \o <<"simulateContract">>
               /\ pc' = "simulateContract"
               /\ UNCHANGED error

\* `await this.publicClient.simulateContract(...)` settles; on success the
\* returned request goes to the wallet client in effect at that moment
SimulateSettles ==
  /\ pc = "simulateContract"
  /\ UNCHANGED <<sdkVars, call, feeFrom, feeResponse, feeEstimate, params,
                 simulated,
                 fetches, cbVars, stVars, pollVars, utilVars, histVars,
                 lifeVars, hookVars>>
  /\ \/ /\ Reject(<<"simulation reverted">>)
        /\ UNCHANGED <<written, steps>>
     \/ /\ written' = <<[request |-> simulated[1], wallet |-> walletClient[1]]>>
        /\ steps' = steps \o <<"writeContract">>
        /\ pc' = "writeContract"
        /\ UNCHANGED error

\* `await this.walletClient.writeContract(request)` settles
WriteSettles ==
  /\ pc = "writeContract"
  /\ UNCHANGED <<sdkVars, call, feeFrom, feeResponse, feeEstimate, params,
                 simulated,
                 written, fetches, cbVars, stVars, pollVars,
                 utilVars, histVars, lifeVars, hookVars>>
  /\ \/ /\ Reject(<<"writeContract failed">>)
        /\ UNCHANGED steps
     \/ /\ steps' = steps \o <<"waitForTransactionReceipt">>
        /\ pc' = "waitForTransactionReceipt"
        /\ UNCHANGED error

\* `await this.publicClient.waitForTransactionReceipt({ hash })` settles
ReceiptSettles ==
  /\ pc = "waitForTransactionReceipt"
  /\ UNCHANGED <<sdkVars, call, feeFrom, feeResponse, feeEstimate, params,
                 simulated,
                 written, steps, fetches, cbVars, stVars, pollVars,
                 utilVars, histVars, lifeVars, hookVars>>
  /\ \/ Reject(<<"waitForTransactionReceipt failed">>)
     \/ pc' = "resolved" /\ UNCHANGED error

NoCall == [op |-> "", targetChainId |-> 0, protocol |-> "", msgValue |-> <<>>,
           amount |-> BigZero, fn |-> "", args |-> [target |-> ""],
           chainAtCall |-> 0]

BridgeIdle ==
  /\ pc = "idle"
  /\ call = NoCall
  /\ feeFrom = <<>>
  /\ feeResponse = <<>>
  /\ feeEstimate = <<>>
  /\ params = <<>>
  /\ simulated = <<>>
  /\ written = <<>>
  /\ steps = <<>>
  /\ fetches = 0
  /\ error = <<>>

BridgeReset ==
  /\ pc' = "idle"
  /\ call' = NoCall
  /\ feeFrom' = <<>>
  /\ feeResponse' = <<>>
  /\ feeEstimate' = <<>>
  /\ params' = <<>>
  /\ simulated' = <<>>
  /\ written' = <<>>
  /\ steps' = <<>>
  /\ fetches' = 0
  /\ error' = <<>>

\* the caller has the outcome; the instance is free for its next call
CallReturns ==
  /\ pc \in {"resolved", "rejected"}
  /\ BridgeReset
  /\ UNCHANGED <<sdkVars, cbVars, stVars, pollVars, utilVars, histVars,
                 lifeVars, hookVars>>

-----------------------------------------------------------------------------
(* BridgingSDK.canBridge *)

Sender == "0xSender"

\* what `await publicClient.readContract(...)` can do: return the pair
\* [isWithinLimit, canBridgeError], throw an Error (contract revert, RPC
\* error), or throw something that is not an Error
ReadOutcomes ==
  { [kind |-> "returned", isWithinLimit |-> TRUE,  message |-> ""],
    [kind |-> "returned", isWithinLimit |-> FALSE, message |-> "limit exceeded"],
    [kind |-> "returned", isWithinLimit |-> FALSE, message |-> ""],
    [kind |-> "threwError", isWithinLimit |-> FALSE,
     message |-> "execution reverted"],
    [kind |-> "threwError", isWithinLimit |-> FALSE, message |-> ""],
    [kind |-> "threwOther", isWithinLimit |-> FALSE, message |-> "rpc down"] }

NoOutcome == [kind |-> "none", isWithinLimit |-> FALSE, message |-> ""]

Resolved(v) == [settled |-> "resolved", value |-> v]
Rejected(e) == [settled |-> "rejected", value |-> e]

CanBridgeResult(isWithinLimit, err) ==
  [isWithinLimit |-> isWithinLimit, error |-> err]

\* (mutant) the error of the read is rethrown
canBridgeCatch_Rethrow(thrown) == Rejected(<<thrown.message>>)

\* the catch clause of canBridge
canBridgeCatch(thrown) ==
  Resolved(CanBridgeResult(FALSE,
    <<"Failed to check bridge limits: " \o
      (IF thrown.kind = "threwError" THEN thrown.message
       ELSE "Unknown error")>>))

\* canBridge once readContract has settled
canBridgeSettle(outcome) ==
  IF outcome.kind = "returned"
  THEN Resolved(CanBridgeResult(outcome.isWithinLimit,
                  IF outcome.isWithinLimit THEN <<>>
                  ELSE <<outcome.message>>))
  ELSE canBridgeCatch(outcome)

NoCanBridgeCall == [from |-> "", amount |-> BigZero, targetChainId |-> 0,
                    chainAtCall |-> 0]

\* (mutant) the amount is normalized with the target chain's decimals
canBridgeArgs_TargetDecimals(from, amount, targetChainId) ==
  <<from, normalizeAmount(amount, targetChainId)>>

\* args of the canBridge read: [from, normalizeAmount(amount, this.currentChainId)]
canBridgeArgs(from, amount, targetChainId) ==
  <<from, normalizeAmount(amount, currentChainId)>>

CanBridgeIdle ==
  /\ cbPc = "idle"
  /\ cbCall = NoCanBridgeCall
  /\ cbReadArgs = <<>>
  /\ cbOutcome = NoOutcome
  /\ cbResult = <<>>

CanBridgeReset ==
  /\ cbPc' = "idle"
  /\ cbCall' = NoCanBridgeCall
  /\ cbReadArgs' = <<>>
  /\ cbOutcome' = NoOutcome
  /\ cbResult' = <<>>

\* sdk.canBridge(from, amount, targetChainId) up to its await
CanBridge ==
  \E a \in Amounts, t \in TargetChainIds :
    /\ cbPc = "idle"
    /\ cbCall' = [from |-> Sender, amount |-> a, targetChainId |-> t,
                  chainAtCall |-> currentChainId]
    /\ cbOutcome' = NoOutcome
    /\ IF t \notin SupportedChainIds
       THEN /\ cbResult' = <<Resolved(CanBridgeResult(FALSE,
                               <<"Unsupported target chain: " \o ToString(t)>>))>>
            /\ cbPc' = "settled"
            /\ cbReadArgs' = <<>>
       ELSE IF currentChainId \notin DOMAIN BRIDGE_CONTRACT_ADDRESSES
       THEN /\ cbResult' = <<Resolved(CanBridgeResult(FALSE,
                               <<"Bridge contract not deployed on chain " \o
                                 ToString(currentChainId)>>))>>
            /\ cbPc' = "settled"
            /\ cbReadArgs' = <<>>
       ELSE /\ cbReadArgs' =
                 <<[address |-> BRIDGE_CONTRACT_ADDRESSES[currentChainId],
                    functionName |-> "canBridge",
                    args |-> canBridgeArgs(Sender, a, t)]>>
            /\ cbPc' = "readContract"
            /\ cbResult' = <<>>
    /\ UNCHANGED <<sdkVars, bridgeVars, stVars, pollVars, utilVars, histVars,
                   lifeVars, hookVars>>

\* `await this.publicClient.readContract(...)` settles
ReadContractSettles ==
  \E outcome \in ReadOutcomes :
    /\ cbPc = "readContract"
    /\ cbOutcome' = outcome
    /\ cbResult' = <<canBridgeSettle(outcome)>>
    /\ cbPc' = "settled"
    /\ UNCHANGED <<cbCall, cbReadArgs, sdkVars, bridgeVars, stVars, pollVars,
                   utilVars, histVars, lifeVars, hookVars>>

CanBridgeReturns ==
  /\ cbPc = "settled"
  /\ CanBridgeReset
  /\ UNCHANGED <<sdkVars, bridgeVars, stVars, pollVars, utilVars, histVars,
                 lifeVars, hookVars>>

-----------------------------------------------------------------------------
(* The scan APIs *)

TxHash    == "0xSourceTx"
DstTxHash == "0xDestinationTx"

\* a LayerZero message record; timestamp in seconds (a digit sequence)
LzMessage(status, dst) ==
  [status |-> status, srcTxHash |-> <<TxHash>>, dstTxHash |-> dst,
   timestamp |-> <<1, 7, 0, 0>>]

\* an Axelar GMP record; a date string is known by the epoch milliseconds
\* that new Date(s).getTime() yields for it
AxelarRecord(status, dst) ==
  [status |-> status, sourceTxHash |-> <<TxHash>>, destinationTxHash |-> dst,
   createdAt |-> [epochMs |-> <<1, 7, 0, 0, 0, 0, 0>>],
   updatedAt |-> [epochMs |-> <<1, 7, 0, 0, 9, 9, 9>>]]

\* decoded bodies {messages: [...]}; messages = <<>> when the field is missing
LzBodies ==
  { [messages |-> <<>>],
    [messages |-> << <<>> >>],
    [messages |-> << <<LzMessage("DELIVERED", <<DstTxHash>>)>> >>],
    [messages |-> << <<LzMessage("FAILED", <<>>)>> >>],
    [messages |-> << <<LzMessage("INFLIGHT", <<>>)>> >>],
    [messages |-> << <<LzMessage("CONFIRMING", <<>>)>> >>],
    [messages |-> << <<LzMessage("INFLIGHT", <<>>),
                       LzMessage("DELIVERED", <<DstTxHash>>)>> >>] }

\* decoded bodies {data: [...]}; data = <<>> when the field is missing
AxelarBodies ==
  { [data |-> <<>>],
    [data |-> << <<>> >>],
    [data |-> << <<AxelarRecord("executed", <<DstTxHash>>)>> >>],
    [data |-> << <<AxelarRecord("failed", <<>>)>> >>],
    [data |-> << <<AxelarRecord("pending", <<>>)>> >>],
    [data |-> << <<AxelarRecord("approved", <<>>)>> >>],
    [data |-> << <<AxelarRecord("pending", <<>>),
                   AxelarRecord("executed", <<DstTxHash>>)>> >>] }

\* a non-2xx answer may still carry a JSON body (an error object)
HttpErrorBody(body) == [net |-> TRUE, ok |-> FALSE, json |-> <<body>>]

ScanResponses(protocol) ==
  LET bodies == IF protocol = "LAYERZERO" THEN LzBodies ELSE AxelarBodies
      errorBody == IF protocol = "LAYERZERO" THEN [messages |-> <<>>]
                   ELSE [data |-> <<>>]
  IN  {NetworkError, HttpError, BadBody, HttpErrorBody(errorBody)}
        \cup {OkBody(b) : b \in bodies}

DateGetTime(d) == d.epochMs

TransactionStatus(status, src, dst, ts, err) ==
  [status |-> status, srcTxHash |-> src, dstTxHash |-> dst, timestamp |-> ts,
   error |-> err]

-----------------------------------------------------------------------------
(* utils/tracking.ts *)

getLayerZeroStatusCatch(why) ==
  Resolved(TransactionStatus("failed", <<>>, <<>>, <<>>,
             <<"Failed to fetch LayerZero status: " \o why>>))

getLayerZeroStatus(resp) ==
  IF ~resp.net THEN getLayerZeroStatusCatch("network error")
  ELSE IF ~resp.ok
  THEN getLayerZeroStatusCatch("LayerZero Scan API error: statusText")
  ELSE IF resp.json = <<>> THEN getLayerZeroStatusCatch("invalid json")
  ELSE
  LET data == resp.json[1] IN
  IF data.messages = <<>> \/ Len(data.messages[1]) = 0
  THEN Resolved(TransactionStatus("pending", <<>>, <<>>, <<>>,
                                  <<"Transaction not found">>))
  ELSE
  LET message == data.messages[1][1] IN
  CASE message.status = "DELIVERED" ->
         Resolved(TransactionStatus("completed", message.srcTxHash,
                    message.dstTxHash, <<BigMulPow10(message.timestamp, 3)>>,
                    <<>>))
    [] message.status = "FAILED" ->
         Resolved(TransactionStatus("failed", message.srcTxHash,
                    message.dstTxHash, <<BigMulPow10(message.timestamp, 3)>>,
                    <<"LayerZero transaction failed">>))
    [] OTHER ->
         Resolved(TransactionStatus("pending", message.srcTxHash, <<>>,
                    <<BigMulPow10(message.timestamp, 3)>>, <<>>))

getAxelarStatusCatch(why) ==
  Resolved(TransactionStatus("failed", <<>>, <<>>, <<>>,
             <<"Failed to fetch Axelar status: " \o why>>))

getAxelarStatus(resp) ==
  IF ~resp.net THEN getAxelarStatusCatch("network error")
  ELSE IF ~resp.ok
  THEN getAxelarStatusCatch("Axelarscan API error: statusText")
  ELSE IF resp.json = <<>> THEN getAxelarStatusCatch("invalid json")
  ELSE
  LET data == resp.json[1] IN
  IF data.data = <<>> \/ Len(data.data[1]) = 0
  THEN Resolved(TransactionStatus("pending", <<>>, <<>>, <<>>,
                                  <<"Transaction not found">>))
  ELSE
  LET transaction == data.data[1][1] IN
  CASE transaction.status = "executed" ->
         Resolved(TransactionStatus("completed", transaction.sourceTxHash,
                    transaction.destinationTxHash,
                    <<DateGetTime(transaction.updatedAt)>>, <<>>))
    [] transaction.status = "failed" ->
         Resolved(TransactionStatus("failed", transaction.sourceTxHash,
                    transaction.destinationTxHash,
                    <<DateGetTime(transaction.updatedAt)>>,
                    <<"Axelar transaction failed">>))
    [] OTHER ->
         Resolved(TransactionStatus("pending", transaction.sourceTxHash, <<>>,
                    <<DateGetTime(transaction.createdAt)>>, <<>>))

getTransactionStatus(protocol, resp) ==
  CASE protocol = "LAYERZERO" -> getLayerZeroStatus(resp)
    [] protocol = "AXELAR"    -> getAxelarStatus(resp)
    [] OTHER -> Rejected(<<"Unsupported protocol: " \o protocol>>)

-----------------------------------------------------------------------------
(* BridgingSDK.getTransactionStatus and its private helpers (viem-sdk.ts) *)

\* the mapping applied to the last record of the answer instead of the first
sdkGetLayerZeroStatus_LastMessage(resp) ==
  IF ~resp.net THEN Rejected(<<"TypeError: fetch failed">>)
  ELSE IF resp.json = <<>> THEN Rejected(<<"SyntaxError: invalid json">>)
  ELSE
  LET data == resp.json[1] IN
  IF data.messages = <<>> \/ Len(data.messages[1]) = 0
  THEN Resolved(TransactionStatus("pending", <<>>, <<>>, <<>>, <<>>))
  ELSE
  LET message == data.messages[1][Len(data.messages[1])] IN
  Resolved(TransactionStatus(
             IF message.status = "DELIVERED" THEN "completed"
             ELSE IF message.status = "FAILED" THEN "failed" ELSE "pending",
             message.srcTxHash, message.dstTxHash,
             <<BigMulPow10(message.timestamp, 3)>>, <<>>))

\* no try/catch and no response.ok test: a failed fetch or an undecodable
\* body rejects the promise
sdkGetLayerZeroStatus(resp) ==
  IF ~resp.net THEN Rejected(<<"TypeError: fetch failed">>)
  ELSE IF resp.json = <<>> THEN Rejected(<<"SyntaxError: invalid json">>)
  ELSE
  LET data == resp.json[1] IN
  IF data.messages = <<>> \/ Len(data.messages[1]) = 0
  THEN Resolved(TransactionStatus("pending", <<>>, <<>>, <<>>, <<>>))
  ELSE
  LET message == data.messages[1][1] IN
  Resolved(TransactionStatus(
             IF message.status = "DELIVERED" THEN "completed"
             ELSE IF message.status = "FAILED" THEN "failed" ELSE "pending",
             message.srcTxHash, message.dstTxHash,
             <<BigMulPow10(message.timestamp, 3)>>, <<>>))

sdkGetAxelarStatus(resp) ==
  IF ~resp.net THEN Rejected(<<"TypeError: fetch failed">>)
  ELSE IF resp.json = <<>> THEN Rejected(<<"SyntaxError: invalid json">>)
  ELSE
  LET data == resp.json[1] IN
  IF data.data = <<>> \/ Len(data.data[1]) = 0
  THEN Resolved(TransactionStatus("pending", <<>>, <<>>, <<>>, <<>>))
  ELSE
  LET transaction == data.data[1][1] IN
  Resolved(TransactionStatus(
             IF transaction.status = "executed" THEN "completed"
             ELSE IF transaction.status = "failed" THEN "failed" ELSE "pending",
             transaction.sourceTxHash, transaction.destinationTxHash,
             <<DateGetTime(transaction.updatedAt)>>, <<>>))

sdkGetTransactionStatus(protocol, resp) ==
  IF protocol = "LAYERZERO" THEN sdkGetLayerZeroStatus(resp)
  ELSE sdkGetAxelarStatus(resp)

NoStatusCall == [impl |-> "", protocol |-> "", response |-> NetworkError]

StatusIdle ==
  /\ stPc = "idle"
  /\ stCall = NoStatusCall
  /\ stResult = <<>>

StatusReset ==
  /\ stPc' = "idle"
  /\ stCall' = NoStatusCall
  /\ stResult' = <<>>

\* sdk.getTransactionStatus(txHash, protocol) [impl = "sdk"] or the exported
\* getTransactionStatus(txHash, protocol) of utils/tracking [impl = "util"]
GetTransactionStatus ==
  \E impl \in {"sdk", "util"}, p \in Protocols :
    /\ stPc = "idle"
    /\ stCall' = [impl |-> impl, protocol |-> p, response |-> NetworkError]
    /\ stPc' = "fetch"
    /\ UNCHANGED <<stResult, sdkVars, bridgeVars, cbVars, pollVars,
                   utilVars, histVars, lifeVars, hookVars>>

\* the scan request (fetch, then response.json()) settles
StatusFetchSettles ==
  \E resp \in ScanResponses(stCall.protocol) :
    /\ stPc = "fetch"
    /\ stCall' = [stCall EXCEPT !.response = resp]
    /\ stResult' = <<IF stCall.impl = "sdk"
                     THEN sdkGetTransactionStatus(stCall.protocol, resp)
                     ELSE getTransactionStatus(stCall.protocol, resp)>>
    /\ stPc' = "settled"
    /\ UNCHANGED <<sdkVars, bridgeVars, cbVars, pollVars, utilVars, histVars,
                   lifeVars, hookVars>>

StatusReturns ==
  /\ stPc = "settled"
  /\ StatusReset
  /\ UNCHANGED <<sdkVars, bridgeVars, cbVars, pollVars, utilVars, histVars,
                 lifeVars, hookVars>>

-----------------------------------------------------------------------------
(* utils/tracking.ts: pollTransactionStatus *)

\* the clock advances in steps of half a poll interval
ClockStep == BRIDGE_STATUS_POLL_INTERVAL \div 2

\* a status request takes 0..MaxFetchDelay clock steps
MaxFetchDelay == 1

\* a timer fires 0..MaxTimerLate clock steps after it is due
MaxTimerLate == 1

\* the while condition
pollLoopContinues(t, start) == t - start < BRIDGE_STATUS_TIMEOUT

\* (mutant) only "completed" ends the loop
pollIsTerminal_CompletedOnly(status) == status.status = "completed"

\* the terminal test
pollIsTerminal(status) ==
  status.status = "completed" \/ status.status = "failed"

\* (mutant) the callback runs after the terminal test
pollNotify_AfterTerminalTest(hasCallback, seen, status) ==
  IF hasCallback /\ ~pollIsTerminal(status) THEN Append(seen, status) ELSE seen

\* if (onStatusUpdate) onStatusUpdate(status)
pollNotify(hasCallback, seen, status) ==
  IF hasCallback THEN Append(seen, status) ELSE seen

pollTimedOut ==
  TransactionStatus("failed", <<>>, <<>>, <<>>,
                    <<"Transaction status polling timed out">>)

NoPollCall == [protocol |-> "", onStatusUpdate |-> FALSE]

PollIdle ==
  /\ pollPc = "idle"
  /\ pollCall = NoPollCall
  /\ now = 0
  /\ startTime = 0
  /\ polls = <<>>
  /\ updates = <<>>
  /\ pollResult = <<>>

PollReset ==
  /\ pollPc' = "idle"
  /\ pollCall' = NoPollCall
  /\ now' = 0
  /\ startTime' = 0
  /\ polls' = <<>>
  /\ updates' = <<>>
  /\ pollResult' = <<>>

\* pollTransactionStatus(txHash, protocol, onStatusUpdate?) up to its first
\* await: startTime is read, the loop is entered and the first request sent
PollTransactionStatus ==
  \E p \in Protocols, cb \in BOOLEAN :
    /\ pollPc = "idle"
    /\ pollCall' = [protocol |-> p, onStatusUpdate |-> cb]
    /\ startTime' = now
    /\ IF pollLoopContinues(now, now)
       THEN pollPc' = "fetch" /\ pollResult' = <<>>
       ELSE pollPc' = "done" /\ pollResult' = <<pollTimedOut>>
    /\ UNCHANGED <<now, polls, updates, sdkVars, bridgeVars, cbVars, stVars,
                   utilVars, histVars, lifeVars, hookVars>>

\* `await getTransactionStatus(txHash, protocol)` settles: callback, terminal
\* test, then the interval timer is armed
PollFetchSettles ==
  \E resp \in ScanResponses(pollCall.protocol), d \in 0..MaxFetchDelay :
    LET r == getTransactionStatus(pollCall.protocol, resp) IN
    /\ pollPc = "fetch"
    /\ now' = now + d * ClockStep
    /\ polls' = Append(polls, r.value)
    /\ updates' = pollNotify(pollCall.onStatusUpdate, updates, r.value)
    /\ IF pollIsTerminal(r.value)
       THEN pollPc' = "done" /\ pollResult' = <<r.value>>
       ELSE pollPc' = "sleep" /\ UNCHANGED pollResult
    /\ UNCHANGED <<pollCall, startTime, sdkVars, bridgeVars, cbVars, stVars,
                   utilVars, histVars, lifeVars, hookVars>>

\* the setTimeout(resolve, BRIDGE_STATUS_POLL_INTERVAL) promise settles and
\* the while condition is evaluated again
PollTimerFires ==
  \E late \in 0..MaxTimerLate :
    /\ pollPc = "sleep"
    /\ now' = now + BRIDGE_STATUS_POLL_INTERVAL + late * ClockStep
    /\ IF pollLoopContinues(now', startTime)
       THEN pollPc' = "fetch" /\ UNCHANGED pollResult
       ELSE pollPc' = "done" /\ pollResult' = <<pollTimedOut>>
    /\ UNCHANGED <<pollCall, startTime, polls, updates, sdkVars, bridgeVars,
                   cbVars, stVars, utilVars, histVars, lifeVars, hookVars>>

PollReturns ==
  /\ pollPc = "done"
  /\ PollReset
  /\ UNCHANGED <<sdkVars, bridgeVars, cbVars, stVars, utilVars, histVars,
                 lifeVars, hookVars>>

-----------------------------------------------------------------------------
(* Calls of the utils/decimals.ts and utils/fees.ts functions *)

\* amounts are q and q * 10^16 + rest, for q in 0..MaxAmount and rest one of
\* Remainders (0, 1, 5 * 10^15, 10^16 - 1)
MaxAmount == 120

Remainders ==
  << Zeros(16), Zeros(15) \o <<1>>, <<5>> \o Zeros(15), [i \in 1..16 |-> 9] >>

UtilAmount(q, r) ==
  IF r = 0 THEN DigitsOf(q) ELSE Strip(DigitsOf(q) \o Remainders[r])

\* fees and balances are n * 10^scale for n in 0..MaxBalance, and the three
\* values 2.2 * 10^18 + k for k in -1..1
MaxBalance == 11

Scales == {0, 18}

UtilValue(n, scale) == BigMulPow10(DigitsOf(n), scale)

Around(k) ==
  CASE k = -1 -> <<2, 1>> \o [i \in 1..17 |-> 9]
    [] k = 0  -> <<2, 2>> \o Zeros(17)
    [] k = 1  -> <<2, 2>> \o Zeros(16) \o <<1>>

NoUtilCall == [fn |-> "", chainId |-> 0, args |-> <<>>, ints |-> <<>>,
               from |-> <<>>]

UtilIdle ==
  /\ utilPc = "idle"
  /\ utilCall = NoUtilCall
  /\ utilResult = <<>>

\* fn(args) returns result
UtilCalled(fn, chainId, args, ints, from, result) ==
  /\ utilCall' = [fn |-> fn, chainId |-> chainId, args |-> args,
                  ints |-> ints, from |-> from]
  /\ utilResult' = <<result>>
  /\ utilPc' = "returned"
  /\ UNCHANGED <<sdkVars, bridgeVars, cbVars, stVars, pollVars, histVars,
                 lifeVars, hookVars>>

\* normalizeAmount(amount, chainId)
NormalizeAmount ==
  \E q \in 0..MaxAmount, r \in 0..Len(Remainders), c \in SupportedChainIds :
    /\ utilPc = "idle"
    /\ UtilCalled("normalizeAmount", c, <<UtilAmount(q, r)>>, <<q, r>>, <<>>,
                  normalizeAmount(UtilAmount(q, r), c))

\* denormalizeAmount(amount, chainId), on an amount of the caller or, as in
\* the decimals test script, on what normalizeAmount has just returned
DenormalizeAmount ==
  \E c \in SupportedChainIds :
    \/ \E q \in 0..MaxAmount, r \in 0..Len(Remainders) :
         /\ utilPc = "idle"
         /\ UtilCalled("denormalizeAmount", c, <<UtilAmount(q, r)>>, <<q, r>>,
                       <<>>, denormalizeAmount(UtilAmount(q, r), c))
    \/ /\ utilPc = "returned"
       /\ utilCall.fn = "normalizeAmount"
       /\ UtilCalled("denormalizeAmount", c, utilResult, <<>>,
                     <<[chainId |-> utilCall.chainId,
                        amount  |-> utilCall.args[1]]>>,
                     denormalizeAmount(utilResult[1], c))

\* validateFeeCoverage(msgValue, requiredFee)
ValidateFeeCoverage ==
  \/ \E n \in 0..MaxBalance, m \in 0..MaxBalance, scale \in Scales :
       /\ utilPc = "idle"
       /\ UtilCalled("validateFeeCoverage", 0,
                     <<UtilValue(n, scale), UtilValue(m, scale)>>, <<n, m>>,
                     <<>>,
                     validateFeeCoverage(UtilValue(n, scale),
                                         UtilValue(m, scale)))
  \/ \E j \in -1..1, k \in -1..1 :
       /\ utilPc = "idle"
       /\ UtilCalled("validateFeeCoverage", 0, <<Around(j), Around(k)>>,
                     <<j, k>>, <<>>,
                     validateFeeCoverage(Around(j), Around(k)))

\* validateSufficientBalance(balance, amount, fee) of utils/fees.ts and of
\* utils/decimals.ts
ValidateSufficientBalance ==
  \E b \in 0..MaxBalance, a \in 0..MaxBalance, f \in 0..MaxBalance,
     scale \in Scales :
    LET args == <<UtilValue(b, scale), UtilValue(a, scale),
                  UtilValue(f, scale)>>
    IN
    /\ utilPc = "idle"
    /\ \/ UtilCalled("fees.validateSufficientBalance", 0, args, <<b, a, f>>,
                      <<>>,
                      fees_validateSufficientBalance(args[1], args[2],
                                                     args[3]))
       \/ UtilCalled("decimals.validateSufficientBalance", 0, args,
                      <<b, a, f>>, <<>>,
                      decimals_validateSufficientBalance(args[1], args[2],
                                                         args[3]))

\* the decimals that formatAmount, parseAmount and roundAmount are called with
UtilDecimals == {0, 1, 2, 6, 18}

\* amounts q * 10^16 + remainder and q * 10^z
FormatAmounts ==
  {UtilAmount(q, r) : q \in 0..MaxAmount, r \in 0..Len(Remainders)}
    \cup {UtilValue(q, z) : q \in 0..MaxAmount, z \in {1, 17}}

\* formatAmount(amount, decimals)
FormatAmount ==
  \E amount \in FormatAmounts, d \in UtilDecimals :
    /\ utilPc = "idle"
    /\ UtilCalled("formatAmount", 0, <<amount>>, <<d>>, <<>>,
                  formatAmount(amount, d))

\* fractions typed by a user, the last one of 19 digits
Fractions ==
  { <<>>, <<5>>, <<0, 5>>, <<5, 0>>, <<9, 9, 9>>, <<0, 0, 0>>, <<1, 2, 5>>,
    <<1>> \o Zeros(17) \o <<9>> }

\* whole parts typed by a user: none, a number, a number with leading zeros
WholeTexts ==
  {<<>>, <<"0", "0", "7">>} \cup {BigToString(DigitsOf(q)) : q \in 0..MaxBalance}

\* texts that are not decimal numbers
OddTexts ==
  { <<"a", "b", "c">>, <<"1", "e", "3">>, <<"1", ".", "2", ".", "3">>,
    <<"1", ".", "5", "x">> }

\* parseAmount(text, decimals), on a text of the caller or on what
\* formatAmount has just returned
ParseAmount ==
  \E d \in UtilDecimals :
    \/ \E w \in WholeTexts, f \in Fractions, dot \in BOOLEAN :
         LET text == IF dot THEN w \o <<".">> \o BigToString(f) ELSE w IN
         /\ utilPc = "idle"
         /\ dot \/ f = <<>>
         /\ UtilCalled("parseAmount", 0, <<text>>, <<d>>,
                       <<[whole |-> w, frac |-> IF dot THEN f ELSE <<>>]>>,
                       parseAmount(text, d))
    \/ \E text \in OddTexts :
         /\ utilPc = "idle"
         /\ UtilCalled("parseAmount", 0, <<text>>, <<d>>, <<>>,
                       parseAmount(text, d))
    \/ /\ utilPc = "returned"
       /\ utilCall.fn = "formatAmount"
       /\ UtilCalled("parseAmount", 0, utilResult, <<d>>,
                     <<[amount   |-> utilCall.args[1],
                        decimals |-> utilCall.ints[1]]>>,
                     parseAmount(utilResult[1], d))

\* roundAmount(amount, decimals)
RoundAmount ==
  \E q \in 0..MaxAmount, r \in 0..Len(Remainders), d \in UtilDecimals :
    /\ utilPc = "idle"
    /\ UtilCalled("roundAmount", 0, <<UtilAmount(q, r)>>, <<d, q, r>>, <<>>,
                  roundAmount(UtilAmount(q, r), d))

\* the caller has the result
UtilReturns ==
  /\ utilPc = "returned"
  /\ utilPc' = "idle"
  /\ utilCall' = NoUtilCall
  /\ utilResult' = <<>>
  /\ UNCHANGED <<sdkVars, bridgeVars, cbVars, stVars, pollVars, histVars,
                 lifeVars, hookVars>>

-----------------------------------------------------------------------------
(* BridgingSDK.getHistory *)

EVENT_QUERY_BATCH_SIZE == 1000

\* logs of one getContractEvents answer: at most MaxLogs logs, in blocks
\* 1..MaxBlock, in chain order; a log is known by its block and its position
MaxLogs == 3

MaxBlock == 3

LogBlocks ==
  UNION { { b \in [1..n -> 1..MaxBlock] :
              \A i \in 1..(n - 1) : b[i] <= b[i + 1] } : n \in 0..MaxLogs }

Logs(blocks) ==
  [i \in 1..Len(blocks) |-> [blockNumber |-> blocks[i], id |-> i]]

\* options?.limit: undefined, or a positive number
HistoryLimits == { <<>>, <<1>>, <<2>> }

\* (logs as any[]).slice(0, limit).map(...) of getBridgeRequests
\* ("BridgeRequest") and getExecutedTransfers ("ExecutedTransfer")
eventsOf(eventName, logs, limitOption) ==
  LET limit == IF limitOption = <<>> \/ limitOption[1] = 0
               THEN EVENT_QUERY_BATCH_SIZE ELSE limitOption[1]
      kept  == IF Len(logs) <= limit THEN logs ELSE SubSeq(logs, 1, limit)
  IN  [i \in 1..Len(kept) |->
         [eventName   |-> eventName,
          blockNumber |-> kept[i].blockNumber,
          id          |-> kept[i].id]]

\* (mutant) the order of the comparison is reversed
compareHistory_Ascending(a, b) ==
  IF a.blockNumber < b.blockNumber THEN -1
  ELSE IF a.blockNumber > b.blockNumber THEN 1
  ELSE 0

\* the comparator getHistory sorts with
compareHistory(a, b) ==
  IF a.blockNumber < b.blockNumber THEN 1
  ELSE IF a.blockNumber > b.blockNumber THEN -1
  ELSE 0

\* x placed behind every element of sorted that does not compare after it
RECURSIVE InsertSorted(_, _)
InsertSorted(sorted, x) ==
  IF sorted = <<>> THEN <<x>>
  ELSE IF compareHistory(Head(sorted), x) <= 0
       THEN <<Head(sorted)>> \o InsertSorted(Tail(sorted), x)
       ELSE <<x>> \o sorted

\* history.sort(compare): Array.prototype.sort is stable
RECURSIVE sortHistory(_)
sortHistory(history) ==
  IF history = <<>> THEN <<>>
  ELSE InsertSorted(sortHistory(SubSeq(history, 1, Len(history) - 1)),
                    history[Len(history)])

\* one of the two fetches of getHistory: where it is, and what it returned
FetchAt(at)       == [at |-> at, events |-> <<>>]
FetchDone(events) == [at |-> "fulfilled", events |-> events]

NoHistoryCall == [address |-> "", limit |-> <<>>]

HistIdle ==
  /\ histPc = "idle"
  /\ histCall = NoHistoryCall
  /\ histRequests = FetchAt("")
  /\ histExecuted = FetchAt("")
  /\ histResult = <<>>

\* sdk.getHistory(address, options) up to its await: getBridgeRequests and
\* getExecutedTransfers each resolve the contract address and ask for the
\* block number
GetHistory ==
  \E limit \in HistoryLimits :
    /\ histPc = "idle"
    /\ histCall' = [address |-> Sender, limit |-> limit]
    /\ IF currentChainId \notin DOMAIN BRIDGE_CONTRACT_ADDRESSES
       THEN /\ histPc' = "rejected"
            /\ histRequests' = FetchAt("rejected")
            /\ histExecuted' = FetchAt("rejected")
            /\ histResult' = <<"Bridge contract not deployed on chain">>
       ELSE /\ histPc' = "promiseAll"
            /\ histRequests' = FetchAt("getBlockNumber")
            /\ histExecuted' = FetchAt("getBlockNumber")
            /\ histResult' = <<>>
    /\ UNCHANGED <<sdkVars, bridgeVars, cbVars, stVars, pollVars, utilVars,
                   lifeVars, hookVars>>

\* getHistory once one of its two fetches has settled: Promise.all rejects
\* with the first rejection, and is fulfilled when both are; then the two
\* arrays are concatenated and sorted
HistorySettles(requests, executed) ==
  /\ histRequests' = requests
  /\ histExecuted' = executed
  /\ IF histPc # "promiseAll"
     THEN UNCHANGED <<histPc, histResult>>
     ELSE IF requests.at = "rejected" \/ executed.at = "rejected"
     THEN /\ histPc' = "rejected"
          /\ histResult' = <<"rejected">>
     ELSE IF requests.at = "fulfilled" /\ executed.at = "fulfilled"
     THEN /\ histPc' = "resolved"
          /\ histResult' = <<sortHistory(requests.events \o executed.events)>>
     ELSE UNCHANGED <<histPc, histResult>>
  /\ UNCHANGED <<histCall, sdkVars, bridgeVars, cbVars, stVars, pollVars,
                 utilVars, lifeVars, hookVars>>

\* `await this.publicClient.getBlockNumber()` settles in one of the fetches
HistoryBlockNumberSettles ==
  \E next \in {"getContractEvents", "rejected"} :
    \/ /\ histRequests.at = "getBlockNumber"
       /\ HistorySettles(FetchAt(next), histExecuted)
    \/ /\ histExecuted.at = "getBlockNumber"
       /\ HistorySettles(histRequests, FetchAt(next))

\* `await this.publicClient.getContractEvents(...)` settles in one of them
HistoryEventsSettles ==
  \/ /\ histRequests.at = "getContractEvents"
     /\ \/ HistorySettles(FetchAt("rejected"), histExecuted)
        \/ \E blocks \in LogBlocks :
             HistorySettles(
               FetchDone(eventsOf("BridgeRequest", Logs(blocks),
                                  histCall.limit)),
               histExecuted)
  \/ /\ histExecuted.at = "getContractEvents"
     /\ \/ HistorySettles(histRequests, FetchAt("rejected"))
        \/ \E blocks \in LogBlocks :
             HistorySettles(
               histRequests,
               FetchDone(eventsOf("ExecutedTransfer", Logs(blocks),
                                  histCall.limit)))

\* the caller has the outcome (a fetch still under way is abandoned)
HistoryReturns ==
  /\ histPc \in {"resolved", "rejected"}
  /\ histPc' = "idle"
  /\ histCall' = NoHistoryCall
  /\ histRequests' = FetchAt("")
  /\ histExecuted' = FetchAt("")
  /\ histResult' = <<>>
  /\ UNCHANGED <<sdkVars, bridgeVars, cbVars, stVars, pollVars, utilVars,
                 lifeVars, hookVars>>

-----------------------------------------------------------------------------
(* react-hooks: useBridgingSDK *)

\* effect runs of one mounted component
MaxRenders == 3

\* [publicClient, walletClient, chainId] as wagmi hands them to the component:
\* no public client; Celo without and with a wallet; Ethereum with a wallet;
\* a chain the SDK does not support
HookDependencies ==
  { [publicClient |-> <<>>, walletClient |-> <<>>, chainId |-> 42220],
    [publicClient |-> <<[chainId |-> 42220]>>, walletClient |-> <<>>,
     chainId |-> 42220],
    [publicClient |-> <<[chainId |-> 42220]>>,
     walletClient |-> <<[chainId |-> 42220]>>, chainId |-> 42220],
    [publicClient |-> <<[chainId |-> 1]>>,
     walletClient |-> <<[chainId |-> 1]>>, chainId |-> 1],
    [publicClient |-> <<[chainId |-> 137]>>, walletClient |-> <<>>,
     chainId |-> 137] }

HookUnmounted ==
  /\ hookDeps = <<>>
  /\ hookRuns = <<>>
  /\ hookSdk = <<>>
  /\ hookLoading = TRUE
  /\ hookError = <<>>

\* the effect runs (on mount, and when a dependency has changed): initSDK()
\* up to its await, or to its end when it has none to wait for
HookEffectRuns ==
  \E d \in HookDependencies :
    LET r == BridgingSDK_new(d.publicClient, d.walletClient, <<d.chainId>>)
        run(state, instance) ==
          [deps |-> d, state |-> state, instance |-> instance]
    IN
    /\ Len(hookRuns) < MaxRenders
    /\ hookDeps # <<d>>
    /\ hookDeps' = <<d>>
    /\ IF d.publicClient = <<>>
       THEN /\ hookError' = <<"Public client not available">>
            /\ hookLoading' = FALSE
            /\ hookRuns' = Append(hookRuns, run("done", <<>>))
       ELSE IF r.threw
       THEN /\ hookError' = r.error
            /\ hookLoading' = FALSE
            /\ hookRuns' = Append(hookRuns, run("done", <<>>))
       ELSE /\ hookError' = <<>>
            /\ hookLoading' = TRUE
            /\ hookRuns' = Append(hookRuns, run("awaiting", r.value))
    /\ UNCHANGED <<hookSdk, sdkVars, bridgeVars, cbVars, stVars, pollVars,
                   utilVars, histVars, lifeVars>>

\* `await bridgingSDK.initialize()` of one of the started runs settles:
\* setSdk(bridgingSDK), or setError(message); then setLoading(false)
HookInitializeSettles ==
  \E i \in 1..Len(hookRuns), resp \in FeeResponses :
    LET r == fetchFeeEstimates(resp) IN
    /\ hookRuns[i].state = "awaiting"
    /\ IF r.threw
       THEN /\ hookError' = r.error
            /\ UNCHANGED hookSdk
       ELSE /\ hookSdk' = <<[run |-> i,
                             fields |-> [hookRuns[i].instance[1]
                                           EXCEPT !.fees = r.value]]>>
            /\ UNCHANGED hookError
    /\ hookLoading' = FALSE
    /\ hookRuns' = [hookRuns EXCEPT ![i].state = "done"]
    /\ UNCHANGED <<hookDeps, sdkVars, bridgeVars, cbVars, stVars, pollVars,
                   utilVars, histVars, lifeVars>>

-----------------------------------------------------------------------------
(* Specifications *)

Init ==
  /\ Constructed
  /\ BridgeIdle
  /\ CanBridgeIdle
  /\ StatusIdle
  /\ PollIdle
  /\ UtilIdle
  /\ HistIdle
  /\ LifeIdle
  /\ HookUnmounted

\* estimateFee and the bridge calls on one SDK instance
Next ==
  \/ SetWalletClient
  \/ EstimateFee
  \/ BridgeTo
  \/ BridgeToWithLz
  \/ BridgeToWithAxelar
  \/ InitializeSettles
  \/ GetFeeEstimateSettles
  \/ GetAddressesSettles
  \/ SimulateSettles
  \/ WriteSettles
  \/ ReceiptSettles
  \/ CallReturns

Spec == Init /\ [][Next]_vars

\* estimateFee on one SDK instance
NextEstimate ==
  \/ SetWalletClient
  \/ EstimateFee
  \/ InitializeSettles
  \/ GetFeeEstimateSettles
  \/ CallReturns

SpecEstimate == Init /\ [][NextEstimate]_vars

\* canBridge on one SDK instance
NextCanBridge ==
  \/ SetWalletClient
  \/ CanBridge
  \/ ReadContractSettles
  \/ CanBridgeReturns

SpecCanBridge == Init /\ [][NextCanBridge]_vars

\* an instance on Celo without a wallet, for the calls that do not read the
\* instance's fields
InitDetached ==
  /\ Init
  /\ currentChainId = 42220
  /\ walletClient = <<>>

NextStatus ==
  \/ GetTransactionStatus
  \/ StatusFetchSettles
  \/ StatusReturns

SpecStatus == Init /\ [][NextStatus]_vars

NextPoll ==
  \/ PollTransactionStatus
  \/ PollFetchSettles
  \/ PollTimerFires
  \/ PollReturns

SpecPoll == InitDetached /\ [][NextPoll]_vars

\* requests return and timers fire
SpecPollFair ==
  /\ SpecPoll
  /\ WF_vars(PollFetchSettles)
  /\ WF_vars(PollTimerFires)
  /\ WF_vars(PollReturns)
  /\ WF_vars(PollTransactionStatus)

\* getHistory on one SDK instance
NextHistory ==
  \/ GetHistory
  \/ HistoryBlockNumberSettles
  \/ HistoryEventsSettles
  \/ HistoryReturns

SpecHistory == InitDetached /\ [][NextHistory]_vars

\* the utils functions, called on their own
NextUtil ==
  \/ NormalizeAmount
  \/ DenormalizeAmount
  \/ ValidateFeeCoverage
  \/ ValidateSufficientBalance
  \/ FormatAmount
  \/ ParseAmount
  \/ RoundAmount
  \/ UtilReturns

SpecUtil == InitDetached /\ [][NextUtil]_vars

\* before the constructor has returned an instance
InitUnconstructed ==
  /\ Unconstructed
  /\ BridgeIdle
  /\ CanBridgeIdle
  /\ StatusIdle
  /\ PollIdle
  /\ UtilIdle
  /\ HistIdle
  /\ HookUnmounted

\* construction, then setWalletClient calls
NextLifecycle ==
  \/ NewBridgingSDK
  \/ SetWalletClientCall

SpecLifecycle == InitUnconstructed /\ [][NextLifecycle]_vars

\* one mounted component that uses useBridgingSDK
NextHook ==
  \/ HookEffectRuns
  \/ HookInitializeSettles

SpecHook == InitDetached /\ [][NextHook]_vars

-----------------------------------------------------------------------------
(* Properties of the bridge calls (Spec) *)

Range(f) == {f[i] : i \in DOMAIN f}

IsPrefix(a, b) == Len(a) <= Len(b) /\ SubSeq(b, 1, Len(a)) = a

ErrorIs(prefix) == error # <<>> /\ error[1] = prefix

InBridgeCall == call.op \in BridgeOps

\* the msgValue ?? 0n of the call in flight
ProvidedValue == IF call.msgValue = <<>> THEN BigZero ELSE call.msgValue

BridgeOrder ==
  <<"walletCheck", "estimateFee", "validateFeeCoverage", "resolveContract",
    "simulateContract", "writeContract", "waitForTransactionReceipt">>

IsOrderedStep(s) == s \in Range(BridgeOrder)

C1_State ==
  InBridgeCall =>
    /\ IsPrefix(SelectSeq(steps, IsOrderedStep), BridgeOrder)
    /\ (written # <<>>) <=> ("writeContract" \in Range(steps))
    /\ (simulated # <<>>) <=> ("simulateContract" \in Range(steps))
    /\ simulated # <<>> =>
         /\ feeEstimate # <<>>
         /\ ~BigLess(ProvidedValue, feeEstimate[1].fee)
         /\ params # <<>>
    /\ written # <<>> => simulated # <<>>
    /\ pc = "resolved" => Len(SelectSeq(steps, IsOrderedStep)) = Len(BridgeOrder)

C1_Step ==
  (InBridgeCall /\ pc = "rejected") =>
     \/ pc' = "idle"
     \/ steps' = steps /\ written' = written /\ simulated' = simulated
          /\ pc' = "rejected"

\* C1: bridgeTo / bridgeToWithLz / bridgeToWithAxelar perform wallet check,
\* fee estimate, fee-coverage validation, contract-address resolution,
\* simulation, writeContract and waitForTransactionReceipt in that order, each
\* only after the previous one succeeded; a call that fails before
\* writeContract never calls writeContract.
C1_StepsInOrder == [](C1_State) /\ [][C1_Step]_vars

C1_Witness ==
  /\ pc = "resolved"
  /\ call.op = "bridgeToWithLz"
  /\ written # <<>>
  /\ Len(steps) = Len(BridgeOrder) + 1

\* C2 (as claimed): a bridge call made without msgValue is validated against
\* the fee it has just estimated, so it is never rejected for an insufficient
\* fee.
C2_NoMsgValueIsCovered ==
  (InBridgeCall /\ call.msgValue = <<>> /\ feeEstimate # <<>>) =>
     ~(pc = "rejected" /\ ErrorIs("Insufficient fee. Required: "))

\* C3 (as claimed): no submission reaches simulateContract without a bridge
\* limit check (canBridge) made after the fee estimate of that submission.
C3_LimitCheckedBeforeSimulated ==
  (InBridgeCall /\ simulated # <<>>) => "canBridge" \in Range(steps)

\* C8 (as claimed): estimateFee with AXELAR fails before any fee-table fetch
\* whenever the source or the destination chain is Fuse (122) or Ethereum (1).
C8_TwoDecimalChainsFailFast ==
  ( /\ "estimateFee" \in Range(steps)
    /\ call.protocol = "AXELAR"
    /\ (call.chainAtCall \in {122, 1} \/ call.targetChainId \in {122, 1}) )
  => (pc = "rejected" /\ fetches = 0)

\* C8 (amended): estimateFee with AXELAR fails before any fee-table fetch
\* whenever the source or the destination chain is XDC (50) or Fuse (122).
C8_XdcFuseFailFast ==
  ( /\ "estimateFee" \in Range(steps)
    /\ call.protocol = "AXELAR"
    /\ (call.chainAtCall \in {50, 122} \/ call.targetChainId \in {50, 122}) )
  => (pc = "rejected" /\ fetches = 0 /\ feeEstimate = <<>>
        /\ ErrorIs(IF call.targetChainId \in SupportedChainIds
                   THEN "Axelar bridging is not supported for "
                   ELSE "TypeError: cannot read 'name' of undefined"))

C8_Witness ==
  /\ call.op = "estimateFee"
  /\ call.protocol = "AXELAR"
  /\ call.chainAtCall = 42220
  /\ call.targetChainId = 50
  /\ pc = "rejected"
  /\ fetches = 0

\* C9: the value attached to the simulated and to the submitted bridge call is
\* the buffered fee estimated in that same call, whatever msgValue (>= fee)
\* the caller supplied.
C9_ValueIsEstimatedFee ==
  InBridgeCall =>
    /\ simulated # <<>> => simulated[1].value = feeEstimate[1].fee
    /\ written # <<>> => written[1].request.value = feeEstimate[1].fee

C9_Witness ==
  /\ InBridgeCall
  /\ written # <<>>
  /\ call.msgValue # <<>>
  /\ BigLess(feeEstimate[1].fee, call.msgValue)
  /\ feeEstimate[1].fee # BigZero

\* C10: the contract call of a bridge operation carries the caller's amount
\* unchanged (native decimals), on every source chain, never the amount
\* normalized to 18 decimals.
C10_AmountPassedUnchanged ==
  InBridgeCall =>
    /\ call.args.amount = call.amount
    /\ params # <<>> => params[1].args.amount = call.amount
    /\ simulated # <<>> => simulated[1].args.amount = call.amount
    /\ written # <<>> => written[1].request.args.amount = call.amount

C10_Witness ==
  /\ InBridgeCall
  /\ written # <<>>
  /\ getChainDecimals(call.chainAtCall) = 2
  /\ normalizeAmount(call.amount, call.chainAtCall) # call.amount
  /\ written[1].request.args.amount = Big115

\* C29 (as claimed): within one bridge call the source chain of the fee
\* estimate and the wallet client that submits the transaction are the ones
\* in effect when the call started, even if setWalletClient runs while the
\* call is suspended at an await; a transaction is never submitted by a
\* wallet on one chain with a fee estimated for another.  (A wallet in effect
\* at the start is on the starting chain or has no chain, chainId 0; the
\* bridge contract has the same address on every chain.)
C29_CallKeepsItsChainAndWallet ==
  call.op \in BridgeOps =>
    /\ feeFrom # <<>> => feeFrom[1] = call.chainAtCall
    /\ written # <<>> =>
         /\ written[1].wallet.chainId \in {0, call.chainAtCall}
         /\ written[1].wallet.chainId \in {0, feeFrom[1]}

-----------------------------------------------------------------------------
(* Properties of canBridge (SpecCanBridge) *)

\* the read failed (revert, RPC error) or the target chain is not supported
CanBridgeFailed ==
  \/ cbCall.targetChainId \notin SupportedChainIds
  \/ cbOutcome.kind \in {"threwError", "threwOther"}

\* C4: canBridge never throws: whatever the sender, amount, target chain and
\* outcome of the contract read, its promise resolves; on a failed read or an
\* unsupported target chain it resolves to isWithinLimit = false with a
\* non-empty error string.
C4_CanBridgeNeverThrows ==
  cbPc = "settled" =>
    /\ cbResult[1].settled = "resolved"
    /\ CanBridgeFailed =>
         /\ cbResult[1].value.isWithinLimit = FALSE
         /\ cbResult[1].value.error # <<>>
         /\ Len(cbResult[1].value.error[1]) > 0

C4_Witness ==
  /\ cbPc = "settled"
  /\ cbOutcome.kind = "threwError"
  /\ cbOutcome.message = ""
  /\ cbResult[1].settled = "resolved"

\* C11: the amount handed to the contract's canBridge read is the caller's
\* amount times 10^(18 - d), d the decimals of the SDK's current (source)
\* chain at the call (18 on Celo and XDC, 2 on Fuse and Ethereum), whatever
\* the decimals of the target chain.
C11_ReadAmountNormalizedBySource ==
  cbReadArgs # <<>> =>
    LET d == IF cbCall.chainAtCall \in {42220, 50} THEN 18 ELSE 2 IN
    /\ cbReadArgs[1].functionName = "canBridge"
    /\ cbReadArgs[1].args[1] = cbCall.from
    /\ cbReadArgs[1].args[2] = cbCall.amount \o Zeros(18 - d)

C11_Witness ==
  /\ cbPc = "readContract"
  /\ cbCall.chainAtCall = 122
  /\ cbCall.targetChainId = 42220
  /\ cbCall.amount = Big115
  /\ cbReadArgs[1].args[2] = <<1, 1, 5>> \o Zeros(16)

-----------------------------------------------------------------------------
(* Properties of getTransactionStatus (SpecStatus) *)

StatusRequestFailed ==
  \/ ~stCall.response.net
  \/ ~stCall.response.ok
  \/ stCall.response.json = <<>>

\* C5 (as claimed): getTransactionStatus fails closed in the SDK method and in
\* the tracking utility alike: a failed request, a non-success HTTP status or
\* an undecodable body resolves to status "failed" with an error message, and
\* the promise never rejects.
C5_StatusFailsClosed ==
  stPc = "settled" =>
    /\ stResult[1].settled = "resolved"
    /\ StatusRequestFailed =>
         /\ stResult[1].value.status = "failed"
         /\ stResult[1].value.error # <<>>

\* the records of a decoded scan answer (none when the field is missing)
ScanRecords(protocol, body) ==
  LET field == IF protocol = "LAYERZERO" THEN body.messages ELSE body.data
  IN  IF field = <<>> THEN <<>> ELSE field[1]

\* the status the first record of a scan answer stands for
MappedStatus(protocol, records) ==
  IF records = <<>> THEN "pending"
  ELSE LET s == records[1].status IN
       IF protocol = "LAYERZERO"
       THEN CASE s = "DELIVERED" -> "completed"
              [] s = "FAILED"    -> "failed"
              [] OTHER           -> "pending"
       ELSE CASE s = "executed"  -> "completed"
              [] s = "failed"    -> "failed"
              [] OTHER           -> "pending"

-----------------------------------------------------------------------------
(* Properties of pollTransactionStatus (SpecPoll, SpecPollFair) *)

Last(seq) == seq[Len(seq)]

AllPending(seq) == \A i \in DOMAIN seq : seq[i].status = "pending"

C6_Result ==
  pollPc = "done" =>
    /\ pollResult # <<>>
    /\ pollResult[1].status \in {"completed", "failed"}
    /\ Len(polls) * BRIDGE_STATUS_POLL_INTERVAL <= BRIDGE_STATUS_TIMEOUT
    /\ \/ /\ polls # <<>>
          /\ pollResult[1] = Last(polls)
          /\ AllPending(SubSeq(polls, 1, Len(polls) - 1))
       \/ /\ pollResult[1] = pollTimedOut
          /\ AllPending(polls)
          /\ ~pollLoopContinues(now, startTime)

C6_Running ==
  pollPc \in {"fetch", "sleep"} => AllPending(polls) /\ pollResult = <<>>

C6_Stops == pollPc = "done" => (polls' = polls \/ pollPc' = "idle")

\* C6: pollTransactionStatus always terminates; it returns the first status
\* that is completed or failed and polls no further, or, when every poll of
\* the 5-minute window (30-second interval) was pending, the failed status
\* "Transaction status polling timed out"; it never returns a pending status.
C6_PollTerminates ==
  /\ [](C6_Result /\ C6_Running)
  /\ [][C6_Stops]_vars
  /\ (pollPc \in {"fetch", "sleep"}) ~> (pollPc = "done")

C6_Witness ==
  /\ pollPc = "done"
  /\ pollResult = <<pollTimedOut>>
  /\ Len(polls) * BRIDGE_STATUS_POLL_INTERVAL = BRIDGE_STATUS_TIMEOUT

\* C7: onStatusUpdate is invoked exactly once per poll with that poll's
\* status, in poll order and before the terminal check; a returned fetched
\* status is the last one passed to the callback, and the timeout result is
\* never passed to it.
C7_CallbackPerPoll ==
  pollCall.onStatusUpdate =>
    /\ updates = polls
    /\ pollTimedOut \notin Range(updates)
    /\ (pollPc = "done" /\ pollResult[1] # pollTimedOut) =>
         (updates # <<>> /\ pollResult[1] = Last(updates))

C7_Witness ==
  /\ pollPc = "done"
  /\ pollCall.onStatusUpdate
  /\ Len(updates) = 3
  /\ pollResult[1].status = "completed"
  /\ pollResult[1] = Last(updates)

-----------------------------------------------------------------------------
(* Properties of the utils functions (SpecUtil) *)

UtilReturned(fn) == utilPc = "returned" /\ utilCall.fn = fn

\* a * 10^k in decimal digits: k zeros appended (0 stays 0)
TimesPow10(a, k) == IF a = <<0>> THEN <<0>> ELSE a \o [i \in 1..k |-> 0]

\* q = floor(a / 10^k)
IsFloorOfDivPow10(q, a, k) ==
  /\ ~BigLess(a, TimesPow10(q, k))
  /\ BigLess(a, TimesPow10(BigAdd(q, <<1>>), k))

\* C12: for every configured chain (decimals d <= 18) and every amount >= 0,
\* normalizeAmount(amount, chain) = amount * 10^(18 - d): the amount itself on
\* the 18-decimal chains Celo and XDC, and 1150000000000000000 for 115 on Fuse.
C12_NormalizeScalesUp ==
  UtilReturned("normalizeAmount") =>
    LET amount == utilCall.args[1]
        d      == SUPPORTED_CHAINS[utilCall.chainId].decimals
    IN  /\ d <= 18
        /\ utilResult[1] = TimesPow10(amount, 18 - d)
        /\ utilCall.chainId \in {42220, 50} => utilResult[1] = amount
        /\ (utilCall.chainId = 122 /\ amount = <<1, 1, 5>>) =>
             utilResult[1] =
               <<1, 1, 5, 0, 0, 0, 0, 0, 0, 0, 0, 0, 0, 0, 0, 0, 0, 0, 0>>

C12_Witness ==
  /\ UtilReturned("normalizeAmount")
  /\ utilCall.chainId = 122
  /\ utilCall.args = << <<1, 1, 5>> >>
  /\ utilResult = << <<1, 1, 5>> \o Zeros(16) >>

\* C13: for every configured chain with d < 18 decimals and every amount >= 0,
\* denormalizeAmount(amount, chain) = floor(amount / 10^(18 - d)): the
\* remainder is dropped, never rounded up; q * 10^16 + rest (rest < 10^16)
\* gives q on a 2-decimal chain, and an amount below 10^16 gives 0.
C13_DenormalizeTruncates ==
  ( /\ UtilReturned("denormalizeAmount")
    /\ SUPPORTED_CHAINS[utilCall.chainId].decimals < 18 )
  =>
    LET amount == utilCall.args[1]
        d      == SUPPORTED_CHAINS[utilCall.chainId].decimals
    IN  /\ IsFloorOfDivPow10(utilResult[1], amount, 18 - d)
        /\ (utilCall.ints # <<>> /\ d = 2) =>
             utilResult[1] = IF utilCall.ints[2] = 0 THEN BigZero
                             ELSE DigitsOf(utilCall.ints[1])

C13_Witness ==
  /\ UtilReturned("denormalizeAmount")
  /\ utilCall.chainId = 122
  /\ utilCall.args = << <<1, 1, 5>> \o [i \in 1..16 |-> 9] >>
  /\ utilResult = << <<1, 1, 5>> >>

\* C14: for every configured chain and every amount >= 0, normalizeAmount
\* followed by denormalizeAmount on the same chain gives the amount back
\* (on an 18-decimal chain both are the identity; on a chain of fewer decimals
\* the truncation drops only the zeros that normalizeAmount appended).
C14_NormalizeDenormalizeRoundTrip ==
  ( /\ UtilReturned("denormalizeAmount")
    /\ utilCall.from # <<>>
    /\ utilCall.from[1].chainId = utilCall.chainId )
  => utilResult[1] = utilCall.from[1].amount

C14_Witness ==
  /\ UtilReturned("denormalizeAmount")
  /\ utilCall.from = <<[chainId |-> 122, amount |-> <<1, 1, 5>>]>>
  /\ utilCall.chainId = 122
  /\ utilCall.args = << <<1, 1, 5>> \o Zeros(16) >>
  /\ utilResult = << <<1, 1, 5>> >>

\* C18: validateFeeCoverage(providedValue, requiredFee) fails exactly when
\* providedValue < requiredFee (it fails at required - 1, succeeds at required
\* and at required + 1), and the failure message carries the required and the
\* provided value.
C18_FeeCoverageBoundary ==
  UtilReturned("validateFeeCoverage") =>
    LET provided == utilCall.args[1]
        required == utilCall.args[2]
        result   == utilResult[1]
    IN  /\ result.isValid <=> ~(utilCall.ints[1] < utilCall.ints[2])
        /\ result.isValid => result.error = <<>>
        /\ ~result.isValid =>
             result.error = <<"Insufficient fee. Required: ", required,
                              ", Provided: ", provided>>

C18_Witness ==
  /\ UtilReturned("validateFeeCoverage")
  /\ utilCall.args = <<Around(-1), Around(0)>>
  /\ ~utilResult[1].isValid
  /\ utilResult[1].error[2] = <<2, 2>> \o Zeros(17)
  /\ utilResult[1].error[4] = <<2, 1>> \o [i \in 1..17 |-> 9]

\* C19: validateSufficientBalance(balance, amount, fee) fails exactly when
\* balance < amount + fee, in utils/fees.ts and in utils/decimals.ts alike:
\* the two return the same isValid for the same arguments.
C19_BalanceVerdictsAgree ==
  ( \/ UtilReturned("fees.validateSufficientBalance")
    \/ UtilReturned("decimals.validateSufficientBalance") )
  =>
    LET balance == utilCall.args[1]
        amount  == utilCall.args[2]
        fee     == utilCall.args[3]
    IN  /\ utilResult[1].isValid <=>
             ~(utilCall.ints[1] < utilCall.ints[2] + utilCall.ints[3])
        /\ fees_validateSufficientBalance(balance, amount, fee).isValid
             = decimals_validateSufficientBalance(balance, amount, fee).isValid

C19_Witness ==
  /\ UtilReturned("decimals.validateSufficientBalance")
  /\ utilCall.ints = <<10, 4, 7>>
  /\ utilCall.args[1] = <<1>> \o Zeros(19)
  /\ ~utilResult[1].isValid
  /\ ~fees_validateSufficientBalance(utilCall.args[1], utilCall.args[2],
                                     utilCall.args[3]).isValid

\* the digits of a text made of digit characters
DigitsIn(text) == [i \in 1..Len(text) |-> DigitVal(text[i])]

\* the amount that the decimal text "w.f" denotes in units of 10^-d, for a
\* fraction of at most d digits
DecimalValue(w, f, d) == Strip(DigitsIn(w) \o DigitsIn(f) \o Zeros(d - Len(f)))

\* C22: parseAmount(formatAmount(x, d), d) = x for every non-negative integer
\* x and every decimals d >= 0.
C22_FormatParseRoundTrip ==
  ( /\ UtilReturned("parseAmount")
    /\ utilCall.from # <<>>
    /\ "amount" \in DOMAIN utilCall.from[1]
    /\ utilCall.from[1].decimals = utilCall.ints[1] )
  => utilResult[1] = Return(utilCall.from[1].amount)

\* formatAmount(125 * 10^15, 18) = "0.125" parses back
C22_Witness ==
  /\ UtilReturned("parseAmount")
  /\ utilCall.from = <<[amount |-> <<1, 2, 5>> \o Zeros(15),
                        decimals |-> 18]>>
  /\ utilCall.ints = <<18>>
  /\ utilCall.args = << <<"0", ".", "1", "2", "5">> >>
  /\ utilResult[1].value = << <<1, 2, 5>> \o Zeros(15) >>

C24_ReadmeExample ==
  ( /\ UtilReturned("formatAmount")
    /\ utilCall.args = << <<1>> \o Zeros(18) >>
    /\ utilCall.ints = <<18>> )
  => utilResult = << <<"1", ".", "0">> >>

\* C25: parseAmount(text, decimals) truncates (never rounds) fractional digits
\* beyond decimals, right-pads shorter fractions with zeros, and yields 0 for
\* "" and "0": for digit strings w and f, parseAmount("w.f", d) is
\* w * 10^d + (the first d digits of f, padded with zeros to length d); so
\* parseAmount("1.5", 18) = 1500000000000000000 and
\* parseAmount("1.999", 2) = 199.
C25_ParseTruncatesAndPads ==
  ( /\ UtilReturned("parseAmount")
    /\ utilCall.from # <<>>
    /\ "whole" \in DOMAIN utilCall.from[1] )
  => LET w    == Strip(DigitsIn(utilCall.from[1].whole))
         f    == utilCall.from[1].frac
         d    == utilCall.ints[1]
         text == utilCall.args[1]
         kept == IF Len(f) > d THEN Strip(SubSeq(f, 1, d))
                 ELSE TimesPow10(Strip(f), d - Len(f))
     IN  /\ utilResult[1] = Return(BigAdd(TimesPow10(w, d), kept))
         /\ text \in {<<>>, <<"0">>} => utilResult[1] = Return(BigZero)
         /\ (text = <<"1", ".", "5">> /\ d = 18)
              => utilResult[1] = Return(<<1, 5>> \o Zeros(17))
         /\ (text = <<"1", ".", "9", "9", "9">> /\ d = 2)
              => utilResult[1] = Return(<<1, 9, 9>>)

C25_Witness ==
  /\ UtilReturned("parseAmount")
  /\ utilCall.args = << <<"1", ".", "9", "9", "9">> >>
  /\ utilCall.ints = <<2>>
  /\ utilResult[1] = Return(<<1, 9, 9>>)

\* C27 (as claimed): roundAmount(amount, decimals) rounds to the given decimal
\* places: for every amount >= 0 and decimals >= 0 the result is a
\* non-negative multiple of 10^decimals whose distance from amount is at most
\* half of 10^decimals (so roundAmount(x, 0) = x).
C27_RoundsToNearest ==
  UtilReturned("roundAmount") =>
    LET amount == utilCall.args[1]
        d      == utilCall.ints[1]
        result == utilResult[1]
        half   == BigDivSmall(BigPow10(d), 2)
    IN  /\ ~result.neg
        /\ BigModPow10(result.mag, d) = BigZero
        /\ ~BigLess(BigAdd(result.mag, half), amount)
        /\ ~BigLess(BigAdd(amount, half), result.mag)
        /\ d = 0 => result.mag = amount

-----------------------------------------------------------------------------
(* Properties of estimateFee (SpecEstimate) *)

EstimateResolved == call.op = "estimateFee" /\ pc = "resolved"

\* the request of getFeeEstimate got a table
TableFetched ==
  /\ feeResponse # <<>>
  /\ feeResponse[1].net
  /\ feeResponse[1].ok
  /\ feeResponse[1].json # <<>>

ChainCode(chainId) ==
  CASE chainId = 42220 -> "CELO" [] chainId = 122 -> "FUSE"
    [] chainId = 1     -> "ETH"  [] chainId = 50  -> "XDC"

\* "{AXL|LZ}_{SRC}_TO_{DST}" of the estimate in flight, SRC the chain the SDK
\* was on when it asked for the estimate
ExpectedRouteKey ==
  (IF call.protocol = "AXELAR" THEN "AXL_" ELSE "LZ_") \o
  ChainCode(feeFrom[1]) \o "_TO_" \o ChainCode(call.targetChainId)

\* C15: the fee estimateFee returns is floor(F * 110 / 100), F being the base
\* fee parsed from the quote in the source chain's decimals:
\* fee * 100 <= F * 110 < (fee + 1) * 100; the quote "2.0 Celo" has
\* F = 2 * 10^d and fee = 22 * 10^(d - 1) on a source chain of d decimals.
C15_FeeIsFlooredBuffer ==
  EstimateResolved =>
    LET F    == parseNativeFee(feeEstimate[1].feeInNative, feeFrom[1]).value[1]
        fee  == feeEstimate[1].fee
        F110 == BigMulSmall(F, 110)
        d    == IF feeFrom[1] \in {42220, 50} THEN 18 ELSE 2
    IN  /\ ~BigLess(F110, BigMulSmall(fee, 100))
        /\ BigLess(F110, BigMulSmall(BigAdd(fee, <<1>>), 100))
        /\ feeEstimate[1].feeInNative =
             <<"2", ".", "0", " ", "C", "e", "l", "o">> =>
               (F = <<2>> \o Zeros(d) /\ fee = <<2, 2>> \o Zeros(d - 1))

C15_Witness ==
  /\ EstimateResolved
  /\ feeFrom = <<122>>
  /\ feeEstimate[1].feeInNative =
       <<"4", ".", "1", "2", "5", " ", "C", "e", "l", "o">>
  /\ feeEstimate[1].fee = <<4, 5, 3>>

\* C16: the estimate is read from exactly the entry
\* feeData[protocol]["{AXL|LZ}_{SRC}_TO_{DST}"], SRC the SDK's current chain:
\* on Celo, estimateFee(Ethereum, "AXELAR") against a table whose
\* AXL_CELO_TO_ETH entry is "2.0 Celo" returns fee = 2200000000000000000.
C16_FeeReadFromRouteEntry ==
  EstimateResolved =>
    /\ TableFetched
    /\ call.protocol \in DOMAIN feeResponse[1].json[1]
    /\ ExpectedRouteKey \in DOMAIN feeResponse[1].json[1][call.protocol]
    /\ feeEstimate[1].feeInNative =
         feeResponse[1].json[1][call.protocol][ExpectedRouteKey]
    /\ feeEstimate[1].protocol = call.protocol
    /\ ( /\ feeFrom = <<42220>>
         /\ call.targetChainId = 1
         /\ call.protocol = "AXELAR"
         /\ feeResponse[1].json[1]["AXELAR"]["AXL_CELO_TO_ETH"] =
              <<"2", ".", "0", " ", "C", "e", "l", "o">> )
       => feeEstimate[1].fee =
            <<2, 2, 0, 0, 0, 0, 0, 0, 0, 0, 0, 0, 0, 0, 0, 0, 0, 0, 0>>

C16_Witness ==
  /\ EstimateResolved
  /\ currentChainId = 42220
  /\ feeFrom = <<42220>>
  /\ call.targetChainId = 1
  /\ call.protocol = "AXELAR"
  /\ feeResponse = <<OkBody(RouteTable)>>
  /\ feeEstimate[1].fee = <<2, 2>> \o Zeros(17)

\* C17: the fee lookup fails, with no estimate returned, when the protocol is
\* absent from the fetched table and when the route key is absent under the
\* protocol; when the fetch of the table itself fails, that failure is the
\* one reported.
C17_LookupFailures ==
  (call.op = "estimateFee" /\ feeResponse # <<>>) =>
    LET table == feeResponse[1].json[1] IN
    /\ pc \in {"resolved", "rejected"}
    /\ pc = "rejected" <=> feeEstimate = <<>>
    /\ ~TableFetched => pc = "rejected" /\ ErrorIs("Fee estimation failed: ")
    /\ (TableFetched /\ call.protocol \notin DOMAIN table) =>
         pc = "rejected" /\ ErrorIs("No fee data available for protocol: ")
    /\ ( /\ TableFetched
         /\ call.protocol \in DOMAIN table
         /\ call.targetChainId \in SupportedChainIds
         /\ ExpectedRouteKey \notin DOMAIN table[call.protocol] )
       => pc = "rejected" /\ ErrorIs("No fee data available for route: ")

C17_Witness ==
  /\ call.op = "estimateFee"
  /\ call.protocol = "LAYERZERO"
  /\ call.targetChainId = 1
  /\ feeResponse = <<OkBody(Table({"LAYERZERO"}, QuoteHalf, {"ETH"}))>>
  /\ pc = "rejected"
  /\ feeEstimate = <<>>
  /\ ErrorIs("No fee data available for route: ")

\* C26 (as claimed): estimateFee uses the cached fee table when one is
\* available and fetches only otherwise: an estimateFee call that starts
\* while the table is stored on the instance issues no request to the fee
\* endpoint.
C26_CachedTableNotRefetched ==
  [][(pc = "idle" /\ fees # <<>> /\ call'.op = "estimateFee")
       => fetches' = 0]_vars

-----------------------------------------------------------------------------
(* Properties of getHistory (SpecHistory) *)

Occurrences(seq, e) == Cardinality({i \in DOMAIN seq : seq[i] = e})

\* C20: getHistory returns a permutation of the BridgeRequest events followed
\* by the ExecutedTransfer events that its two fetches returned (nothing
\* dropped, nothing duplicated), in non-increasing order of block number.
C20_HistoryIsSortedPermutation ==
  histPc = "resolved" =>
    LET fetched == histRequests.events \o histExecuted.events
        history == histResult[1]
    IN  /\ Len(history) = Len(fetched)
        /\ \A i \in DOMAIN fetched :
             Occurrences(history, fetched[i]) = Occurrences(fetched, fetched[i])
        /\ \A i \in DOMAIN history :
             Occurrences(fetched, history[i]) = 1
        /\ \A i \in DOMAIN history, j \in DOMAIN history :
             i < j => history[i].blockNumber >= history[j].blockNumber

C20_Witness ==
  /\ histPc = "resolved"
  /\ Len(histRequests.events) = 3
  /\ Len(histExecuted.events) = 3
  /\ Len(histResult[1]) = 6
  /\ histResult[1][1] = [eventName |-> "ExecutedTransfer", blockNumber |-> 3,
                          id |-> 3]
  /\ histResult[1][2].blockNumber = 2
  /\ histResult[1][2].eventName = "BridgeRequest"
  /\ histResult[1][6].blockNumber = 1

-----------------------------------------------------------------------------
(* Properties of construction and setWalletClient (SpecLifecycle) *)

\* C28: after any sequence of construction and setWalletClient calls, a live
\* BridgingSDK's currentChainId is a key of SUPPORTED_CHAINS; a constructor
\* call for an unsupported chain yields no instance, and a setWalletClient
\* call that throws (missing or unsupported wallet chain) leaves both
\* walletClient and currentChainId unchanged.
C28_ChainAlwaysSupported ==
  /\ sdkLive => currentChainId \in DOMAIN SUPPORTED_CHAINS
  /\ lifeCall.op = "constructor" =>
       LET p == lifeCall.args[1]
           c == lifeCall.args[3]
           chain == IF c # <<>> THEN c[1] ELSE p[1].chainId
       IN  (p # <<>> /\ chain \notin DOMAIN SUPPORTED_CHAINS)
             => (lifeCall.threw /\ ~sdkLive)
  /\ lifeCall.op = "setWalletClient" =>
       LET chain == lifeCall.args[1].chainId IN
       /\ lifeCall.threw <=> (chain = 0 \/ chain \notin DOMAIN SUPPORTED_CHAINS)
       /\ lifeCall.threw => <<walletClient, currentChainId>> = lifeCall.before

\* an instance moved to Fuse refuses a wallet on an unsupported chain
C28_Witness ==
  /\ sdkLive
  /\ lifeCall.op = "setWalletClient"
  /\ lifeCall.threw
  /\ lifeCall.args = <<[chainId |-> 137]>>
  /\ currentChainId = 122
  /\ walletClient = <<[chainId |-> 122]>>

-----------------------------------------------------------------------------
(* Properties of useBridgingSDK (SpecHook) *)

HookSettled ==
  /\ hookRuns # <<>>
  /\ \A i \in 1..Len(hookRuns) : hookRuns[i].state = "done"

\* C30 (as claimed): an earlier initialization that completes later never
\* overwrites the result of a later one: once every started initialization
\* has settled, the sdk exposed by the hook is either null or the instance
\* constructed for the latest dependencies.
C30_LatestInitializationWins ==
  HookSettled => (hookSdk = <<>> \/ hookSdk[1].run = Len(hookRuns))

====
